---- MODULE Spec2Model ----
(***************************************************************************)
(* The channel broker (ChannelServer, channelserver/src/server.rs) and the *)
(* WebSocket sessions that talk to it (WsChannelSession, src/session.rs).  *)
(* One action per handler; every broker handler runs to completion, as the *)
(* actor processes one message of its mailbox at a time.                   *)
(***************************************************************************)
EXTENDS Integers, Sequences, FiniteSets, TLC

\* ------------------------------------------------------------------ bounds
NActors == 3          \* session actors (sockets) that may ever be started
NChannels == 2        \* distinct channel ids in play
MaxSessionId == 2     \* rng.gen::<usize>() draws from 0..MaxSessionId
MaxMsgs == 2          \* ClientMessage(Text) requests in one run

\* ------------------------------------------------------- program constants
U8Mod == 256          \* msg_count: u8
WrapOverhead == 26    \* {"message":"","sender":{}} around the text
HEARTBEAT_INTERVAL == 5   \* seconds between two runs of the hb closure
CLIENT_TIMEOUT == 10      \* seconds
CHANNELID_LEN == 16       \* bytes of a ChannelID

Actors == 1..NActors
ChannelIDs == 1..NChannels
SessionIds == 0..MaxSessionId
NoRemote == "none"
\* Option<String> remote of each socket: two sockets share ipA, one has none.
RemoteOf(a) == CASE a % 4 = 1 -> "ipA"
                 [] a % 4 = 2 -> "ipB"
                 [] a % 4 = 3 -> "ipA"
                 [] OTHER -> NoRemote
\* lengths of the trimmed text of an inbound ws::Message::Text
TextLens == {4, 34}
\* Settings the server may be started with (settings.rs: three u8/u64 limits;
\* max_channel_connections = 3 and max_data = 0 are the defaults).  Small
\* max_exchanges values keep the quota within reach of MaxMsgs.
SettingsChoices ==
    { [max_channel_connections |-> 0, max_exchanges |-> 0, max_data |-> 0],
      [max_channel_connections |-> 2, max_exchanges |-> 0, max_data |-> 50],
      [max_channel_connections |-> 2, max_exchanges |-> 1, max_data |-> 50],
      [max_channel_connections |-> 3, max_exchanges |-> 1, max_data |-> 0] }

VARIABLES channels, sessions, metrics, settings, sess, msgSeq, last, clock
vars == <<channels, sessions, metrics, settings, sess, msgSeq, last, clock>>

\* ----------------------------------------------------------------- helpers
Put(f, k, v) == [x \in (DOMAIN f) \cup {k} |-> IF x = k THEN v ELSE f[x]]
Remove(f, k) == [x \in (DOMAIN f) \ {k} |-> f[x]]
EmptyMap == [x \in {} |-> 0]
Perms(S) == {p \in [1..Cardinality(S) -> S] : \A i, j \in 1..Cardinality(S) : p[i] = p[j] => i = j}
RECURSIVE SeqOf(_)
SeqOf(S) == IF S = {} THEN <<>>
            ELSE LET x == CHOOSE y \in S : \A z \in S : y <= z
                 IN <<x>> \o SeqOf(S \ {x})

\* ------------------------------------------------------------------ frames
\* TextMessage(MessageType, String)
\* faulty variant: the link frame does not name the channel
LinkFrame_NoChannel(c) == [type |-> "Text", body |-> <<"link", 0>>]

LinkFrame(c) == [type |-> "Text", body |-> <<"link", c>>]
MsgFrame(msg_len) == [type |-> "Text", body |-> <<"msg", msg_len>>]
TerminateFrame == [type |-> "Terminate", body |-> <<"eol", 0>>]

\* json!({"message": msg, "sender": sender}).to_string().len()
WrappedLen(n) == n + WrapOverhead

\* ------------------------------------------------------------ send_message
DataExceeded(party, msg_len) ==
    settings.max_data > 0
    /\ (party.data_exchanged > settings.max_data \/ msg_len > settings.max_data)

\* faulty variant: the running total is overwritten, not accumulated
Charge_Overwrite(party, msg_len) ==
    [party EXCEPT !.data_exchanged = msg_len, !.msg_count = (@ + 1) % U8Mod]

Charge(party, msg_len) ==
    [party EXCEPT !.data_exchanged = @ + msg_len, !.msg_count = (@ + 1) % U8Mod]

\* faulty variant: off by one, the Nth message already terminates
MsgExceeded_OffByOne(party) ==
    settings.max_exchanges > 0 /\ party.msg_count >= settings.max_exchanges

MsgExceeded(party) ==
    settings.max_exchanges > 0 /\ party.msg_count > settings.max_exchanges

\* faulty variant: the sender is not skipped
IsRecipient_Everyone(party, skip_id) == TRUE
\* if party.session_id != skip_id
IsRecipient(party, skip_id) == party.session_id # skip_id

\* The loop over participants.values_mut(), visited in the order ord.
RECURSIVE SendLoop(_, _, _, _, _, _, _)
SendLoop(ord, i, parts, out, msg_len, frame, skip_id) ==
    IF i > Len(ord) THEN [parts |-> parts, out |-> out, err |-> "ok"]
    ELSE LET pid == ord[i]
             party == parts[pid]
         IN IF DataExceeded(party, msg_len)
            THEN [parts |-> parts, out |-> out, err |-> "XSData"]
            ELSE LET charged == Charge(party, msg_len)
                     parts1 == [parts EXCEPT ![pid] = charged]
                 IN IF MsgExceeded(charged)
                    THEN [parts |-> parts1, out |-> out, err |-> "XSMessage"]
                    ELSE SendLoop(ord, i + 1, parts1,
                                  IF IsRecipient(charged, skip_id)
                                     /\ charged.session_id \in DOMAIN sessions
                                  THEN Append(out, <<sessions[charged.session_id], frame>>)
                                  ELSE out,
                                  msg_len, frame, skip_id)

\* faulty variant: a channel that is absent is created empty
SendMessage_Creates(chs, channel, ord, msg_len, frame, skip_id) ==
    LET chs1 == IF channel \in DOMAIN chs THEN chs ELSE Put(chs, channel, EmptyMap)
        r == SendLoop(ord, 1, chs1[channel], <<>>, msg_len, frame, skip_id)
    IN [chs |-> [chs1 EXCEPT ![channel] = r.parts], out |-> r.out, err |-> r.err]

\* send_message(channel, message, skip_id) on the registry chs
SendMessage(chs, channel, ord, msg_len, frame, skip_id) ==
    IF channel \in DOMAIN chs
    THEN LET r == SendLoop(ord, 1, chs[channel], <<>>, msg_len, frame, skip_id)
         IN [chs |-> [chs EXCEPT ![channel] = r.parts], out |-> r.out, err |-> r.err]
    ELSE [chs |-> chs, out |-> <<>>, err |-> "ok"]

\* ---------------------------------------------------------------- shutdown
\* faulty variant: every session of the registry is terminated
ShutdownTargets_Everyone(chs, ses, channel) == DOMAIN ses

\* for id in participants.keys(): if let Some(addr) = self.sessions.get(&id)
ShutdownTargets(chs, ses, channel) ==
    IF channel \in DOMAIN chs THEN (DOMAIN chs[channel]) \cap (DOMAIN ses) ELSE {}

ShutdownForget(chs, ses, channel) ==
    IF channel \in DOMAIN chs
    THEN [x \in (DOMAIN ses) \ (DOMAIN chs[channel]) |-> ses[x]]
    ELSE ses

Shutdown(chs, ses, channel) ==
    LET ids == SeqOf(ShutdownTargets(chs, ses, channel))
    IN [chs |-> Remove(chs, channel),
        ses |-> ShutdownForget(chs, ses, channel),
        out |-> [i \in 1..Len(ids) |-> <<ses[ids[i]], TerminateFrame>>]]

\* -------------------------------------------------------------- disconnect
\* faulty variant: the Terminate is fanned out to every member of the channel
DisconnectNotify_All(chs, ses, channel, id) ==
    IF channel \in DOMAIN chs /\ id \in DOMAIN chs[channel]
    THEN LET ids == SeqOf((DOMAIN chs[channel]) \cap (DOMAIN ses))
         IN [i \in 1..Len(ids) |-> <<ses[ids[i]], TerminateFrame>>]
    ELSE <<>>

DisconnectNotify(chs, ses, channel, id) ==
    IF channel \in DOMAIN chs /\ id \in DOMAIN chs[channel] /\ id \in DOMAIN ses
    THEN <<(<<ses[id], TerminateFrame>>)>>
    ELSE <<>>

\* faulty variant: a disconnect empties the channel
DisconnectRemove_All(group, id) == EmptyMap

DisconnectRemove(group, id) == Remove(group, id)

Disconnect(chs, ses, channel, id) ==
    LET out1 == DisconnectNotify(chs, ses, channel, id)
        chs1 == IF channel \in DOMAIN chs
                THEN [chs EXCEPT ![channel] = DisconnectRemove(@, id)]
                ELSE chs
        do_shutdown == channel \in DOMAIN chs1 /\ DOMAIN chs1[channel] = {}
    IN IF do_shutdown
       THEN LET s == Shutdown(chs1, ses, channel)
            IN [chs |-> s.chs, ses |-> s.ses, out |-> out1 \o s.out]
       ELSE [chs |-> chs1, ses |-> ses, out |-> out1]

\* --------------------------------------------------------- reconnect_check
\* faulty variant: any present remote passes
ReconnectCheck_AnyRemote(group, new_remote) == new_remote # NoRemote

ReconnectCheck(group, new_remote) ==
    /\ new_remote # NoRemote
    /\ \E p \in DOMAIN group : group[p].remote # NoRemote /\ group[p].remote = new_remote

\* ------------------------------------------------------- Handler<Connect>
NewSession(session_id, remote) ==
    [session_id |-> session_id, msg_count |-> 0, data_exchanged |-> 0, remote |-> remote]

\* faulty variant: a probe of an unknown id creates the channel
UnknownChannel_Probe(chs, channel, initial_connect) == FALSE

UnknownChannel(chs, channel, initial_connect) ==
    channel \notin DOMAIN chs /\ ~initial_connect

\* faulty variant: off by one, the channel may grow one past the cap
OverCapacity_OffByOne(group) ==
    Cardinality(DOMAIN group) > settings.max_channel_connections

OverCapacity(group) == Cardinality(DOMAIN group) >= settings.max_channel_connections

Unexpected(group, remote) ==
    Cardinality(DOMAIN group) > 2 /\ ~ReconnectCheck(group, remote)

\* faulty variant: the rejected session is sent a Terminate
Rejected_Notified(addr, chs, ses, met, outcome) ==
    [chs |-> chs, ses |-> ses, met |-> met, out |-> <<(<<addr, TerminateFrame>>)>>,
     reply |-> 0, outcome |-> outcome]

\* return 0: the registries as they stand, nothing sent
Rejected(addr, chs, ses, met, outcome) ==
    [chs |-> chs, ses |-> ses, met |-> met, out |-> <<>>, reply |-> 0, outcome |-> outcome]

\* The handler on (channels, sessions, metrics): the reply and the new registry.
HandleConnect(addr, channel, remote, initial_connect, session_id) ==
    LET ses1 == Put(sessions, session_id, addr)
        chs1 == IF channel \in DOMAIN channels THEN channels
                ELSE Put(channels, channel, EmptyMap)
    IN IF UnknownChannel(channels, channel, initial_connect)
       THEN Rejected(addr, channels, ses1, metrics, "unknown")
       ELSE IF OverCapacity(chs1[channel])
       THEN Rejected(addr, chs1, Remove(ses1, session_id),
                     [metrics EXCEPT !.max_conn = @ + 1], "full")
       ELSE IF Unexpected(chs1[channel], remote)
       THEN Rejected(addr, chs1, ses1, metrics, "unexpected")
       ELSE [chs |-> [chs1 EXCEPT ![channel] =
                         Put(@, session_id, NewSession(session_id, remote))],
             ses |-> ses1, met |-> metrics,
             out |-> <<(<<addr, LinkFrame(channel)>>)>>,
             reply |-> session_id, outcome |-> "accepted"]

\* -------------------------------------------------- Handler<ClientMessage>
HandleText(channel, id, ord, msg_len, frame) ==
    LET r == SendMessage(channels, channel, ord, msg_len, frame, id)
    IN IF r.err # "ok"
       THEN LET s == Shutdown(r.chs, sessions, channel)
            IN [chs |-> s.chs, ses |-> s.ses, out |-> r.out \o s.out, err |-> r.err,
                met |-> IF r.err = "XSData"
                        THEN [metrics EXCEPT !.max_data = @ + 1]
                        ELSE [metrics EXCEPT !.max_msg = @ + 1]]
       ELSE [chs |-> r.chs, ses |-> sessions, out |-> r.out, err |-> "ok", met |-> metrics]

\* ---------------------------------------------------------------- delivery
\* ctx.text(msg.1) in Handler<TextMessage>: relayed messages written out by a
\* session that is still running (do_send to a stopped actor fails and is dropped).
RECURSIVE Receive(_, _)
Receive(ss, out) ==
    IF out = <<>> THEN ss
    ELSE LET b == Head(out)[1]
             f == Head(out)[2]
         IN Receive(IF ss[b].state = "attached" /\ f.body[1] = "msg"
                    THEN [ss EXCEPT ![b].recv = @ + 1] ELSE ss,
                    Tail(out))

\* -------------------------------------------------------------------- Init
\* Instant::now() and, per session, the instant hb of its last heartbeat, the
\* instant it was created at, and whether a run of its hb closure is due.
ClockZero(S) == [now |-> 0, hb |-> [a \in S |-> 0], born |-> [a \in S |-> 0],
                 due |-> [a \in S |-> FALSE]]

Init ==
    /\ channels = EmptyMap
    /\ sessions = EmptyMap
    /\ metrics = [max_conn |-> 0, max_data |-> 0, max_msg |-> 0]
    /\ settings \in SettingsChoices
    /\ sess = [a \in Actors |-> [state |-> "new", id |-> 0, channel |-> 1, recv |-> 0]]
    /\ msgSeq = 0
    /\ last = [op |-> "init", actor |-> 0, outcome |-> "none", out |-> <<>>]
    /\ clock = ClockZero(Actors)

\* ----------------------------------------------------------------- actions
\* faulty variant: the reply is not tested
StateOnReply_Ignore0(session_id) == "attached"

\* if session_id == 0 { ctx.stop() }
StateOnReply(session_id) == IF session_id = 0 THEN "stopping" ELSE "attached"

\* WsChannelSession::started: Connect is sent and its reply awaited (wait);
\* the reply becomes act.id and a reply of 0 stops the session.
ConnectFrom(a, channel, remote, initial_connect, session_id) ==
    /\ sess[a].state = "new"
    /\ \A b \in 1..(a - 1) : sess[b].state # "new"
    /\ LET r == HandleConnect(a, channel, remote, initial_connect, session_id)
       IN /\ channels' = r.chs
          /\ sessions' = r.ses
          /\ metrics' = r.met
          /\ sess' = [sess EXCEPT ![a] = [state |-> StateOnReply(r.reply),
                                          id |-> r.reply, channel |-> channel,
                                          recv |-> 0]]
          /\ last' = [op |-> "Connect", actor |-> a, outcome |-> r.outcome, out |-> r.out]
    /\ UNCHANGED <<settings, msgSeq>>

\* the session of socket a, whose peer address is RemoteOf(a)
ConnectWith(a, channel, initial_connect, session_id) ==
    /\ ConnectFrom(a, channel, RemoteOf(a), initial_connect, session_id)
    /\ UNCHANGED clock

Connect(a) ==
    \E channel \in ChannelIDs, initial_connect \in BOOLEAN, session_id \in SessionIds :
        ConnectWith(a, channel, initial_connect, session_id)

\* The orders in which participants.values_mut() may visit a channel's members.
Orders(channel) ==
    Perms(IF channel \in DOMAIN channels THEN DOMAIN channels[channel] ELSE {})

\* ws::Message::Text: ClientMessage(Text) with the session's id and channel.
RelayText(a, n, ord) ==
    /\ sess[a].state = "attached"
    /\ LET r == HandleText(sess[a].channel, sess[a].id, ord, WrappedLen(n),
                           MsgFrame(WrappedLen(n)))
       IN /\ channels' = r.chs
          /\ sessions' = r.ses
          /\ metrics' = r.met
          /\ sess' = Receive(sess, r.out)
          /\ last' = [op |-> "Text", actor |-> a, outcome |-> r.err, out |-> r.out]
    /\ UNCHANGED settings

\* at most MaxMsgs such requests in one run
ClientTextWith(a, n, ord) ==
    /\ msgSeq < MaxMsgs
    /\ RelayText(a, n, ord)
    /\ msgSeq' = msgSeq + 1

ClientText(a) ==
    /\ \E n \in TextLens : \E ord \in Orders(sess[a].channel) : ClientTextWith(a, n, ord)
    /\ UNCHANGED clock

\* ClientMessage(Terminate) for the session's own id: the broker disconnects
\* the single session, whose actor stops on the Terminate frame it is sent.
ClientTerminate(a) ==
    /\ sess[a].state = "attached"
    /\ LET r == Disconnect(channels, sessions, sess[a].channel, sess[a].id)
       IN /\ channels' = r.chs
          /\ sessions' = r.ses
          /\ last' = [op |-> "Terminate", actor |-> a, outcome |-> "none", out |-> r.out]
    /\ sess' = [sess EXCEPT ![a].state = "stopping"]
    /\ UNCHANGED <<metrics, settings, msgSeq, clock>>

\* ws::Message::Close: Disconnect is sent, then ctx.stop().
WsClose(a) ==
    /\ sess[a].state = "attached"
    /\ LET r == Disconnect(channels, sessions, sess[a].channel, sess[a].id)
       IN /\ channels' = r.chs
          /\ sessions' = r.ses
          /\ last' = [op |-> "Disconnect", actor |-> a, outcome |-> "close", out |-> r.out]
    /\ sess' = [sess EXCEPT ![a].state = "stopping"]
    /\ UNCHANGED <<metrics, settings, msgSeq, clock>>

\* WsChannelSession::stopping: the final Disconnect; the actor is gone after it.
StoppingDisconnect(a) ==
    /\ sess[a].state = "stopping"
    /\ LET r == Disconnect(channels, sessions, sess[a].channel, sess[a].id)
       IN /\ channels' = r.chs
          /\ sessions' = r.ses
          /\ last' = [op |-> "Disconnect", actor |-> a, outcome |-> "stopping", out |-> r.out]
    /\ sess' = [sess EXCEPT ![a] = [state |-> "stopped", id |-> 0, channel |-> 1, recv |-> 0]]
    /\ UNCHANGED <<metrics, settings, msgSeq>>

Stopping(a) == StoppingDisconnect(a) /\ UNCHANGED clock

Next ==
    \E a \in Actors :
        \/ Connect(a)
        \/ ClientText(a)
        \/ ClientTerminate(a)
        \/ WsClose(a)
        \/ Stopping(a)

Spec == Init /\ [][Next]_vars

\* ------------------------------------------------- joins to a paired channel
\* A second specification for the admission of further sessions to one
\* channel: more sockets, peer addresses chosen per connection, and capacities
\* that leave room beyond the two principals.  No quotas, no messages.
NPeers == 4           \* sockets that may ever be started
MaxPeerId == 3        \* rng.gen::<usize>() draws from 0..MaxPeerId
Peers == 1..NPeers
PeerIds == 0..MaxPeerId
Remotes == {"ipA", "ipB", "ipC", NoRemote}
PairedChannel == 1
ReconnectSettings ==
    { [max_channel_connections |-> 3, max_exchanges |-> 0, max_data |-> 0],
      [max_channel_connections |-> 4, max_exchanges |-> 0, max_data |-> 0] }

InitReconnect ==
    /\ channels = EmptyMap
    /\ sessions = EmptyMap
    /\ metrics = [max_conn |-> 0, max_data |-> 0, max_msg |-> 0]
    /\ settings \in ReconnectSettings
    /\ sess = [a \in Peers |-> [state |-> "new", id |-> 0, channel |-> 1, recv |-> 0]]
    /\ msgSeq = 0
    /\ last = [op |-> "init", actor |-> 0, outcome |-> "none", out |-> <<>>]
    /\ clock = ClockZero(Peers)

PeerConnect(a) ==
    /\ \E remote \in Remotes, initial_connect \in BOOLEAN, session_id \in PeerIds :
          ConnectFrom(a, PairedChannel, remote, initial_connect, session_id)
    /\ UNCHANGED clock

NextReconnect ==
    \E a \in Peers :
        \/ PeerConnect(a)
        \/ WsClose(a)
        \/ Stopping(a)

SpecReconnect == InitReconnect /\ [][NextReconnect]_vars

\* ------------------------------------------------- heartbeat of the sessions
\* A third specification for the hb closure of WsChannelSession: two sockets
\* on one channel, no quotas, and a clock that advances by one heartbeat
\* interval at a time.  Times are in seconds.
NHbActors == 2        \* sockets that may ever be started
MaxTime == 15         \* the clock stops here
HbActors == 1..NHbActors
HbChannel == 1
HbTextLens == {4}
\* conn_lifespan below and above CLIENT_TIMEOUT; client_timeout equal to
\* CLIENT_TIMEOUT and at its default
HbSettings ==
    { [max_channel_connections |-> 2, max_exchanges |-> 0, max_data |-> 0,
       conn_lifespan |-> l, client_timeout |-> t] : l \in {5, 15}, t \in {10, 30} }

InitHeartbeat ==
    /\ channels = EmptyMap
    /\ sessions = EmptyMap
    /\ metrics = [max_conn |-> 0, max_data |-> 0, max_msg |-> 0,
                  expired |-> 0, timeout |-> 0]
    /\ settings \in HbSettings
    /\ sess = [a \in HbActors |-> [state |-> "new", id |-> 0, channel |-> 1, recv |-> 0]]
    /\ msgSeq = 0
    /\ last = [op |-> "init", actor |-> 0, outcome |-> "none", out |-> <<>>]
    /\ clock = ClockZero(HbActors)

\* channel_route creates the session with hb: Instant::now(); started then
\* registers it with the broker.
HbStarted(a) ==
    /\ \E initial_connect \in BOOLEAN, session_id \in SessionIds :
          ConnectFrom(a, HbChannel, RemoteOf(a), initial_connect, session_id)
    /\ clock' = [clock EXCEPT !.hb[a] = clock.now, !.born[a] = clock.now,
                              !.due[a] = FALSE]

\* ws::Message::Ping and ws::Message::Pong: self.hb = Instant::now()
WsPing(a) ==
    /\ sess[a].state = "attached"
    /\ clock' = [clock EXCEPT !.hb[a] = clock.now]
    /\ last' = [op |-> "Heartbeat", actor |-> a, outcome |-> "none", out |-> <<>>]
    /\ UNCHANGED <<channels, sessions, metrics, settings, sess, msgSeq>>

WsPong(a) ==
    /\ sess[a].state = "attached"
    /\ clock' = [clock EXCEPT !.hb[a] = clock.now]
    /\ last' = [op |-> "Heartbeat", actor |-> a, outcome |-> "none", out |-> <<>>]
    /\ UNCHANGED <<channels, sessions, metrics, settings, sess, msgSeq>>

\* ws::Message::Text: self.hb = Instant::now(), then ClientMessage(Text)
WsText(a) ==
    /\ \E n \in HbTextLens : \E ord \in Orders(sess[a].channel) : ClientTextWith(a, n, ord)
    /\ clock' = [clock EXCEPT !.hb[a] = clock.now]

\* One heartbeat interval passes: the hb closure of every running session
\* becomes due.
Advance ==
    /\ clock.now < MaxTime
    /\ \A a \in HbActors : clock.due[a] => sess[a].state # "attached"
    /\ clock' = [clock EXCEPT !.now = @ + HEARTBEAT_INTERVAL,
                              !.due = [a \in HbActors |-> sess[a].state = "attached"]]
    /\ last' = [op |-> "Advance", actor |-> 0, outcome |-> "none", out |-> <<>>]
    /\ UNCHANGED <<channels, sessions, metrics, settings, sess, msgSeq>>

\* WsChannelSession::stopping; the session's instants go with the actor
HbStopping(a) ==
    /\ StoppingDisconnect(a)
    /\ clock' = [clock EXCEPT !.hb[a] = 0, !.born[a] = 0, !.due[a] = FALSE]

IdleFor(a) == clock.now - clock.hb[a]
HeartbeatTimedOut(a) == IdleFor(a) > CLIENT_TIMEOUT
LifespanOver(a) == IdleFor(a) > settings.conn_lifespan

\* The closure of ctx.run_interval(HEARTBEAT_INTERVAL, ..), with the broker's
\* handling of the Disconnect it sends.
HbTick(a) ==
    /\ sess[a].state = "attached"
    /\ clock.due[a]
    /\ clock' = [clock EXCEPT !.due[a] = FALSE]
    /\ IF HeartbeatTimedOut(a) \/ LifespanOver(a)
       THEN LET r == Disconnect(channels, sessions, sess[a].channel, sess[a].id)
            IN /\ channels' = r.chs
               /\ sessions' = r.ses
               /\ metrics' = IF HeartbeatTimedOut(a)
                             THEN [metrics EXCEPT !.expired = @ + 1]
                             ELSE [metrics EXCEPT !.timeout = @ + 1]
               /\ sess' = [sess EXCEPT ![a].state = "stopping"]
               /\ last' = [op |-> "Disconnect", actor |-> a,
                           outcome |-> IF HeartbeatTimedOut(a) THEN "expired"
                                       ELSE "timeout",
                           out |-> r.out]
       ELSE /\ last' = [op |-> "Tick", actor |-> a, outcome |-> "ping", out |-> <<>>]
            /\ UNCHANGED <<channels, sessions, metrics, sess>>
    /\ UNCHANGED <<settings, msgSeq>>

NextHeartbeat ==
    \/ Advance
    \/ \E a \in HbActors :
        \/ HbStarted(a)
        \/ WsPing(a)
        \/ WsPong(a)
        \/ WsText(a)
        \/ HbTick(a)
        \/ WsClose(a)
        \/ HbStopping(a)

SpecHeartbeat == InitHeartbeat /\ [][NextHeartbeat]_vars

\* ------------------------------------------------------ routing of a request
\* A fourth specification for channel_route and ChannelID: a request is routed
\* to a new session, which then registers with the broker.  Channel ids are
\* the byte arrays themselves.
NRouteActors == 2     \* requests that may ever arrive
RouteActors == 1..NRouteActors
\* the bytes an identifier decodes to: n bytes, told apart by their first byte
Bytes(n, fill) == [i \in 1..n |-> IF i = 1 THEN fill ELSE i]
DecodedLens == {3, CHANNELID_LEN, CHANNELID_LEN + 1}
Fills == {0, 1}
\* The last segment of the request path: empty for the bare /v1/ws/ path, else
\* an identifier: its text before the trailing '=' signs (is it base64 of the
\* URL-safe alphabet, and of which bytes) and the number of these signs.
Requests ==
    {[bare |-> TRUE, decodable |-> FALSE, bytes |-> <<>>, pad |-> 0]}
    \cup {[bare |-> FALSE, decodable |-> d, bytes |-> Bytes(n, f), pad |-> p] :
            d \in BOOLEAN, n \in DecodedLens, f \in Fills, p \in {0, 2}}

\* string.trim_end_matches('=')
TrimPadding(req) == [req EXCEPT !.pad = 0]

\* URL_SAFE_NO_PAD.decode(..)
Decode(text) == IF text.decodable /\ text.pad = 0
                THEN [kind |-> "ok", bytes |-> text.bytes]
                ELSE [kind |-> "err", bytes |-> <<>>]

\* array.copy_from_slice(&bytes[..16]): the index panics on a shorter slice
TakeId(bytes) == IF Len(bytes) < CHANNELID_LEN
                 THEN [kind |-> "panic", value |-> <<>>]
                 ELSE [kind |-> "ok", value |-> SubSeq(bytes, 1, CHANNELID_LEN)]

\* ChannelID::from_str
FromStr(req) ==
    LET d == Decode(TrimPadding(req))
    IN IF d.kind = "err" THEN [kind |-> "err", value |-> <<>>] ELSE TakeId(d.bytes)

\* ChannelID::default(): CHANNELID_LEN bytes of the entropy source
DefaultIds == {Bytes(CHANNELID_LEN, f) : f \in Fills}

\* channel_route up to ws::start: the channel and initial_connection the new
\* session is given, and the tag of conn.request; none if the handler panics.
ChannelRoute(req, fresh) ==
    IF req.bare
    THEN [kind |-> "ok", channel |-> fresh, initial_connection |-> TRUE, tag |-> "new"]
    ELSE LET r == FromStr(req)
         IN CASE r.kind = "ok" ->
                   [kind |-> "ok", channel |-> r.value, initial_connection |-> FALSE,
                    tag |-> "existing"]
              [] r.kind = "err" ->
                   [kind |-> "ok", channel |-> fresh, initial_connection |-> TRUE,
                    tag |-> "error"]
              [] OTHER ->
                   [kind |-> "panic", channel |-> <<>>, initial_connection |-> FALSE,
                    tag |-> "none"]

InitRoute ==
    /\ channels = EmptyMap
    /\ sessions = EmptyMap
    /\ metrics = [max_conn |-> 0, max_data |-> 0, max_msg |-> 0]
    /\ settings \in {st \in SettingsChoices : st.max_channel_connections = 2}
    /\ sess = [a \in RouteActors |->
                 [state |-> "new", id |-> 0, channel |-> <<>>, recv |-> 0,
                  initial_connection |-> FALSE, bare |-> FALSE]]
    /\ msgSeq = 0
    /\ last = [op |-> "init", actor |-> 0, outcome |-> "none", out |-> <<>>,
               req |-> [bare |-> TRUE, decodable |-> FALSE, bytes |-> <<>>, pad |-> 0],
               decoded |-> [kind |-> "none", value |-> <<>>]]
    /\ clock = ClockZero(RouteActors)

\* the request of socket a is routed
RouteWith(a, req, fresh) ==
    /\ sess[a].state = "new"
    /\ \A b \in 1..(a - 1) : sess[b].state # "new"
    /\ LET r == ChannelRoute(req, fresh)
       IN /\ sess' = [sess EXCEPT ![a] =
                        [state |-> IF r.kind = "panic" THEN "stopped" ELSE "routed",
                         id |-> 0, channel |-> r.channel, recv |-> 0,
                         initial_connection |-> r.initial_connection,
                         bare |-> req.bare]]
          /\ last' = [op |-> "Route", actor |-> a,
                      outcome |-> IF r.kind = "panic" THEN "panic" ELSE r.tag,
                      out |-> <<>>, req |-> req,
                      decoded |-> IF req.bare THEN [kind |-> "none", value |-> <<>>]
                                  ELSE FromStr(req)]
    /\ UNCHANGED <<channels, sessions, metrics, settings, msgSeq, clock>>

Route(a) == \E req \in Requests, fresh \in DefaultIds : RouteWith(a, req, fresh)

\* WsChannelSession::started of a routed session, with the broker's reply
RouteStarted(a) ==
    /\ sess[a].state = "routed"
    /\ \E session_id \in SessionIds :
         LET r == HandleConnect(a, sess[a].channel, RemoteOf(a),
                                sess[a].initial_connection, session_id)
         IN /\ channels' = r.chs
            /\ sessions' = r.ses
            /\ metrics' = r.met
            /\ sess' = [sess EXCEPT ![a].state = IF r.reply = 0 THEN "stopping"
                                                 ELSE "attached",
                                    ![a].id = r.reply]
            /\ last' = [last EXCEPT !.op = "Connect", !.actor = a,
                                    !.outcome = r.outcome, !.out = r.out]
    /\ UNCHANGED <<settings, msgSeq, clock>>

\* WsChannelSession::stopping of a routed session
RouteStopping(a) ==
    /\ sess[a].state \in {"attached", "stopping"}
    /\ LET r == Disconnect(channels, sessions, sess[a].channel, sess[a].id)
       IN /\ channels' = r.chs
          /\ sessions' = r.ses
          /\ last' = [last EXCEPT !.op = "Disconnect", !.actor = a,
                                  !.outcome = "stopping", !.out = r.out]
    /\ sess' = [sess EXCEPT ![a].state = "stopped"]
    /\ UNCHANGED <<metrics, settings, msgSeq, clock>>

NextRoute ==
    \E a \in RouteActors :
        \/ Route(a)
        \/ RouteStarted(a)
        \/ RouteStopping(a)

SpecRoute == InitRoute /\ [][NextRoute]_vars

\* ------------------------------------------------------------------ claims
Members(chs, c) == IF c \in DOMAIN chs THEN DOMAIN chs[c] ELSE {}
ChannelsOf(id) == {c \in DOMAIN channels : id \in DOMAIN channels[c]}
LiveIds == (DOMAIN sessions) \cup UNION {DOMAIN channels[c] : c \in DOMAIN channels}
\* how many frames f the handler pushed to the delivery handle of actor b
Pushed(out, b, f) == Cardinality({i \in 1..Len(out) : out[i] = <<b, f>>})

\* C1: every id of the sessions registry is a member of exactly one channel and
\* every channel member has an entry in the sessions registry (no orphans).
C1_NoOrphanSessions ==
    /\ \A id \in DOMAIN sessions : Cardinality(ChannelsOf(id)) = 1
    /\ \A c \in DOMAIN channels : DOMAIN channels[c] \subseteq DOMAIN sessions

\* C2: no channel ever has more than max_channel_connections members, and a
\* Connect to an existing channel that is already at that size returns 0, adds
\* no member and increments conn.max.conn.
C2_AtCapacity(c) ==
    c \in DOMAIN channels
    /\ Cardinality(DOMAIN channels[c]) >= settings.max_channel_connections

C2_Capacity ==
    /\ [](\A c \in DOMAIN channels :
            Cardinality(DOMAIN channels[c]) <= settings.max_channel_connections)
    /\ [][\A a \in Actors, c \in ChannelIDs, ic \in BOOLEAN, sid \in SessionIds :
            (ConnectWith(a, c, ic, sid) /\ C2_AtCapacity(c))
            => /\ sess'[a].id = 0
               /\ channels' = channels
               /\ metrics'.max_conn = metrics.max_conn + 1]_vars

C2_Witness ==
    /\ last.op = "Connect" /\ last.outcome = "full"
    /\ settings.max_channel_connections >= 2
    /\ sess[last.actor].id = 0
    /\ Cardinality(Members(channels, sess[last.actor].channel))
         = settings.max_channel_connections

\* C3: a Connect with initial_connect = false for a channel id that is not in
\* the registry returns 0 and creates no channel, also when the id is that of
\* a channel that existed before and was removed.
C3_UnknownChannel ==
    [][\A a \in Actors, c \in ChannelIDs, sid \in SessionIds :
        (ConnectWith(a, c, FALSE, sid) /\ c \notin DOMAIN channels)
        => /\ sess'[a].id = 0
           /\ c \notin DOMAIN channels'
           /\ channels' = channels]_vars

\* the probed id is that of a channel an earlier session was accepted into
C3_Witness ==
    /\ last.op = "Connect" /\ last.outcome = "unknown"
    /\ sess[last.actor].id = 0
    /\ sess[last.actor].channel \notin DOMAIN channels
    /\ \E b \in Actors : /\ b # last.actor
                         /\ sess[b].state = "stopping"
                         /\ sess[b].id # 0
                         /\ sess[b].channel = sess[last.actor].channel

\* C4: the id returned for an accepted Connect is non-zero and is the id of no
\* session live in the broker at that moment; 0 is returned only on rejection.
C4_FreshNonZeroId ==
    [][\A a \in Actors, c \in ChannelIDs, ic \in BOOLEAN, sid \in SessionIds :
        ConnectWith(a, c, ic, sid)
        => /\ last'.outcome = "accepted" => (sess'[a].id # 0 /\ sess'[a].id \notin LiveIds)
           /\ sess'[a].id = 0 => last'.outcome # "accepted"]_vars

\* C5: a ClientMessage(Text) that triggers no quota violation is pushed exactly
\* once to every member of the channel other than the sender, and never to the
\* sender.
C5_FanOut ==
    [][\A a \in Actors, n \in TextLens : \A ord \in Orders(sess[a].channel) :
        (ClientTextWith(a, n, ord) /\ last'.outcome = "ok")
        => /\ \A m \in Members(channels, sess[a].channel) \ {sess[a].id} :
                /\ m \in DOMAIN sessions
                /\ Pushed(last'.out, sessions[m], MsgFrame(WrappedLen(n))) = 1
           /\ \A i \in 1..Len(last'.out) : last'.out[i][1] # a]_vars

\* C6 (as claimed): a Text from s charges data_exchanged and msg_count of every
\* other member and leaves the counters of the sender s unchanged.
C6_SenderUncharged ==
    [][\A a \in Actors, n \in TextLens : \A ord \in Orders(sess[a].channel) :
        (ClientTextWith(a, n, ord) /\ last'.outcome = "ok"
         /\ sess[a].channel \in DOMAIN channels)
        => LET c == sess[a].channel
           IN /\ \A m \in DOMAIN channels[c] \ {sess[a].id} :
                   /\ channels'[c][m].data_exchanged
                        = channels[c][m].data_exchanged + WrappedLen(n)
                   /\ channels'[c][m].msg_count = channels[c][m].msg_count + 1
              /\ sess[a].id \in DOMAIN channels[c]
                   => channels'[c][sess[a].id] = channels[c][sess[a].id]]_vars

\* C6 (amended): a Text that triggers no quota violation charges every member
\* of the channel, the sender included: data_exchanged grows by the wrapped
\* length and msg_count by one (an 8-bit counter); no other channel changes.
C6_EveryMemberCharged ==
    [][\A a \in Actors, n \in TextLens : \A ord \in Orders(sess[a].channel) :
        (ClientTextWith(a, n, ord) /\ last'.outcome = "ok"
         /\ sess[a].channel \in DOMAIN channels)
        => LET c == sess[a].channel
           IN /\ DOMAIN channels' = DOMAIN channels
              /\ DOMAIN channels'[c] = DOMAIN channels[c]
              /\ \A m \in DOMAIN channels[c] :
                   /\ channels'[c][m].data_exchanged
                        = channels[c][m].data_exchanged + WrappedLen(n)
                   /\ channels'[c][m].msg_count = (channels[c][m].msg_count + 1) % U8Mod
                   /\ channels'[c][m].remote = channels[c][m].remote
              /\ \A d \in DOMAIN channels \ {c} : channels'[d] = channels[d]]_vars

\* the second Text relayed on a pair: the sender's own counters have grown
C6_Witness ==
    /\ last.op = "Text" /\ last.outcome = "ok"
    /\ sess[last.actor].state = "attached"
    /\ sess[last.actor].channel \in DOMAIN channels
    /\ LET g == channels[sess[last.actor].channel]
       IN /\ sess[last.actor].id \in DOMAIN g
          /\ g[sess[last.actor].id].msg_count = 2
          /\ g[sess[last.actor].id].data_exchanged > 0
          /\ Cardinality(DOMAIN g) >= 2
          /\ Len(last.out) >= 1

\* C7 (as claimed): with max_exchanges = N > 0 a recipient is delivered its
\* first N relayed messages, its (N+1)th relayed message terminates the channel
\* with one conn.max.msg, and no message-count termination comes earlier.
C7_Recipients(a) ==
    {b \in Actors \ {a} : /\ sess[b].state = "attached"
                          /\ sess[b].channel = sess[a].channel
                          /\ sess[b].id \in Members(channels, sess[a].channel)
                          /\ sess[b].id # sess[a].id}

C8_OversizeMessage ==
    [][\A a \in Actors, n \in TextLens : \A ord \in Orders(sess[a].channel) :
        (ClientTextWith(a, n, ord) /\ settings.max_data > 0
         /\ WrappedLen(n) > settings.max_data
         /\ Members(channels, sess[a].channel) # {})
        => LET c == sess[a].channel
           IN /\ \A i \in 1..Len(last'.out) : last'.out[i][2].type # "Text"
              /\ c \notin DOMAIN channels'
              /\ metrics'.max_data = metrics.max_data + 1
              /\ \A m \in DOMAIN channels[c] :
                   /\ m \in DOMAIN sessions
                   /\ Pushed(last'.out, sessions[m], TerminateFrame) = 1]_vars

\* C9: with max_data > 0 no message is delivered to a recipient whose
\* data_exchanged, that message included, exceeds max_data: the fan-out is
\* aborted with XSData instead.
C9_RunningTotalCap ==
    [][\A a \in Actors, n \in TextLens : \A ord \in Orders(sess[a].channel) :
        (ClientTextWith(a, n, ord) /\ settings.max_data > 0
         /\ sess[a].channel \in DOMAIN channels)
        => LET c == sess[a].channel
               over(m) == channels[c][m].data_exchanged + WrappedLen(n) > settings.max_data
           IN /\ \A m \in DOMAIN channels[c] \cap DOMAIN sessions :
                   over(m) => Pushed(last'.out, sessions[m], MsgFrame(WrappedLen(n))) = 0
              /\ (\E m \in DOMAIN channels[c] \ {sess[a].id} : over(m))
                   => last'.outcome = "XSData"]_vars

C12_ShutdownClearsMembers ==
    [][\A c \in ChannelIDs :
        (c \in DOMAIN channels /\ c \notin DOMAIN channels')
        => /\ (DOMAIN channels[c]) \cap (DOMAIN sessions') = {}
           /\ \A m \in (DOMAIN channels[c]) \cap (DOMAIN sessions) :
                Pushed(last'.out, sessions[m], TerminateFrame) = 1]_vars

\* C13: in every reachable broker state no channel of the channels registry
\* has zero members, whatever max_channel_connections is configured.
C13_NoEmptyChannel == \A c \in DOMAIN channels : DOMAIN channels[c] # {}

\* C14: once a channel has two members with known addresses, a Connect to it
\* from a present remote address equal to that of neither is rejected: it returns 0, the
\* joiner is not added, and the two members stay and are sent nothing.
C14_ThirdPartyRejected ==
    [][\A a \in Peers, remote \in Remotes \ {NoRemote}, ic \in BOOLEAN, sid \in PeerIds :
        (ConnectFrom(a, PairedChannel, remote, ic, sid)
         /\ Cardinality(Members(channels, PairedChannel)) = 2
         /\ \A m \in DOMAIN channels[PairedChannel] :
                channels[PairedChannel][m].remote \notin {remote, NoRemote})
        => /\ sess'[a].id = 0
           /\ last'.outcome # "accepted"
           /\ channels' = channels
           /\ last'.out = <<>>]_vars

\* C15: for a channel with more than 2 members and fewer than
\* max_channel_connections, a Connect is accepted (the joiner becomes a member
\* and is pushed the link frame) if and only if its remote is present and
\* equals the remote of some member; otherwise it returns 0, adds no member
\* and pushes nothing.
C15_ReconnectOnly ==
    [][\A a \in Peers, remote \in Remotes, ic \in BOOLEAN, sid \in PeerIds :
        (ConnectFrom(a, PairedChannel, remote, ic, sid)
         /\ Cardinality(Members(channels, PairedChannel)) > 2
         /\ Cardinality(Members(channels, PairedChannel)) < settings.max_channel_connections)
        => LET c == PairedChannel
               match == /\ remote # NoRemote
                        /\ \E m \in DOMAIN channels[c] : channels[c][m].remote = remote
           IN /\ (last'.outcome = "accepted") <=> match
              /\ match => /\ sid \in DOMAIN channels'[c]
                          /\ channels'[c][sid] = NewSession(sid, remote)
                          /\ last'.out = <<(<<a, LinkFrame(c)>>)>>
              /\ ~match => /\ sess'[a].id = 0
                           /\ last'.outcome = "unexpected"
                           /\ channels' = channels
                           /\ last'.out = <<>>]_vars

\* a fourth session was admitted to a channel of three on a matching address
C15_Witness ==
    /\ last.op = "Connect" /\ last.outcome = "accepted"
    /\ settings.max_channel_connections = 4
    /\ sess[last.actor].id # 0
    /\ Cardinality(Members(channels, PairedChannel)) = 4
    /\ \E m \in DOMAIN channels[PairedChannel] \ {sess[last.actor].id} :
         /\ channels[PairedChannel][m].remote # NoRemote
         /\ channels[PairedChannel][m].remote
              = channels[PairedChannel][sess[last.actor].id].remote

\* C16: for every accepted Connect the first frame pushed to the new session's
\* delivery handle is the link frame naming its channel, it is pushed exactly
\* once, and it precedes every relayed message and every Terminate pushed to
\* that session.  Step by step: nothing is pushed to a session that has not
\* connected yet; the accepting step pushes to it the link frame and nothing
\* else; no later step pushes a link frame to it.
C16_IsLink(f, c) == f.type = "Text" /\ f.body = <<"link", c>>

C16_LinkFrameFirst ==
    [][\A b \in Actors :
        LET to_b == {i \in 1..Len(last'.out) : last'.out[i][1] = b}
        IN /\ (sess[b].state = "new" /\ sess'[b].state = "new") => to_b = {}
           /\ (sess[b].state = "new" /\ sess'[b].state # "new")
                => IF last'.outcome = "accepted"
                   THEN /\ Cardinality(to_b) = 1
                        /\ \A i \in to_b : C16_IsLink(last'.out[i][2], sess'[b].channel)
                   ELSE to_b = {}
           /\ sess[b].state # "new"
                => \A i \in to_b : last'.out[i][2].body[1] # "link"]_vars

\* a session that was accepted, hence pushed its link frame, is now relayed
\* its first message
C16_Witness ==
    /\ last.op = "Text" /\ last.outcome = "ok"
    /\ \E b \in Actors \ {last.actor} :
         /\ sess[b].state = "attached" /\ sess[b].id # 0
         /\ sess[b].recv = 1
         /\ \E i \in 1..Len(last.out) :
              last.out[i][1] = b /\ last.out[i][2].body[1] = "msg"

\* seconds since the session was created
C17_Age(a) == clock.now - clock.born[a]

\* C17: at a heartbeat tick, an attached session that is not idle beyond the
\* idle deadline but whose age since creation exceeds conn_lifespan is closed:
\* conn.timeout is emitted, Disconnect(Timeout) is sent and the session stops.
C17_LifespanCloses ==
    [][\A a \in HbActors :
        (HbTick(a)
         /\ C17_Age(a) > settings.conn_lifespan
         /\ IdleFor(a) <= CLIENT_TIMEOUT /\ IdleFor(a) <= settings.client_timeout)
        => /\ sess'[a].state = "stopping"
           /\ metrics'.timeout = metrics.timeout + 1
           /\ last'.op = "Disconnect"]_vars

\* C18: at a heartbeat tick, a session idle for more than client_timeout emits
\* conn.expired, sends Disconnect(Timeout) and stops without a Ping; a session
\* idle for at most client_timeout whose lifespan has not expired sends a Ping
\* and stays attached.
C18_IdleTimeout ==
    [][\A a \in HbActors :
        HbTick(a)
        => /\ IdleFor(a) > settings.client_timeout
                => /\ sess'[a].state = "stopping"
                   /\ metrics'.expired = metrics.expired + 1
                   /\ last'.op = "Disconnect" /\ last'.outcome = "expired"
           /\ (IdleFor(a) <= settings.client_timeout
               /\ C17_Age(a) <= settings.conn_lifespan)
                => /\ sess'[a].state = "attached"
                   /\ metrics' = metrics
                   /\ last'.outcome = "ping"]_vars

\* C19: only a request on the bare path gives its session initial_connect =
\* true and a generated channel id; a request that supplies an identifier,
\* decodable or not, is routed to the channel it names (if routed at all) and
\* its Connect creates no channel.
C19_OnlyBarePathCreates ==
    [][\A a \in RouteActors :
        /\ \A req \in Requests, fresh \in DefaultIds :
             (RouteWith(a, req, fresh) /\ ~req.bare /\ sess'[a].state = "routed")
             => /\ ~sess'[a].initial_connection
                /\ FromStr(req).kind = "ok"
                /\ sess'[a].channel = FromStr(req).value
        /\ (RouteStarted(a) /\ ~sess[a].bare)
             => DOMAIN channels' \subseteq DOMAIN channels]_vars

\* C20: ChannelID::from_str returns an error for every identifier that decodes
\* to other than exactly CHANNELID_LEN bytes (or does not decode), and returns
\* the decoded bytes as the id for a CHANNELID_LEN-byte encoding, with or
\* without trailing '=' padding.
C20_DecodeExactLength ==
    (last.op = "Route" /\ ~last.req.bare)
    => /\ (~last.req.decodable \/ Len(last.req.bytes) # CHANNELID_LEN)
            => last.decoded.kind = "err"
       /\ (last.req.decodable /\ Len(last.req.bytes) = CHANNELID_LEN)
            => last.decoded = [kind |-> "ok", value |-> last.req.bytes]

\* ------------------------------------------------- ChannelID text codec
\* src/src/channelid.rs. A text is a sequence of symbols: 0..63 are the
\* characters of the URL-safe base64 alphabet by their index, PadSym is '=',
\* OtherSym a character outside the alphabet.
PadSym == 64
OtherSym == 65
ByteMod == 256

RECURSIVE B64Encode(_)
\* URL_SAFE_NO_PAD.encode: three bytes give four symbols; one or two
\* remaining bytes give two or three, the spare low bits zero, no padding.
B64Encode(bytes) ==
    CASE Len(bytes) = 0 -> <<>>
      [] Len(bytes) = 1 -> <<bytes[1] \div 4, (bytes[1] % 4) * 16>>
      [] Len(bytes) = 2 ->
           LET n == bytes[1] * 256 + bytes[2]
           IN <<n \div 1024, (n \div 16) % 64, (n % 16) * 4>>
      [] OTHER ->
           LET n == bytes[1] * 65536 + bytes[2] * 256 + bytes[3]
           IN <<n \div 262144, (n \div 4096) % 64, (n \div 64) % 64, n % 64>>
              \o B64Encode(SubSeq(bytes, 4, Len(bytes)))

RECURSIVE B64DecodeValid(_)
\* the bytes of a text of alphabet symbols whose length and last symbol are
\* acceptable
B64DecodeValid(text) ==
    CASE Len(text) = 0 -> <<>>
      [] Len(text) = 2 -> <<text[1] * 4 + text[2] \div 16>>
      [] Len(text) = 3 ->
           LET n == (text[1] * 4096 + text[2] * 64 + text[3]) \div 4
           IN <<n \div 256, n % 256>>
      [] OTHER ->
           LET n == text[1] * 262144 + text[2] * 4096 + text[3] * 64 + text[4]
           IN <<n \div 65536, (n \div 256) % 256, n % 256>>
              \o B64DecodeValid(SubSeq(text, 5, Len(text)))

\* URL_SAFE_NO_PAD.decode: a symbol outside the alphabet (padding included),
\* a length of 1 modulo 4, or non-zero spare bits in the last symbol are errors
B64Decode(text) ==
    LET n == Len(text)
        spare == CASE n % 4 = 2 -> text[n] % 16
                   [] n % 4 = 3 -> text[n] % 4
                   [] OTHER -> 0
    IN IF \/ \E i \in 1..n : text[i] > 63
          \/ n % 4 = 1
          \/ spare # 0
       THEN [kind |-> "err", bytes |-> <<>>]
       ELSE [kind |-> "ok", bytes |-> B64DecodeValid(text)]

RECURSIVE TrimEndPad(_)
\* string.trim_end_matches('=')
TrimEndPad(text) ==
    IF Len(text) > 0 /\ text[Len(text)] = PadSym
    THEN TrimEndPad(SubSeq(text, 1, Len(text) - 1))
    ELSE text

\* ChannelID::as_string
ChannelID_as_string(value) == B64Encode(value)

\* ChannelID::from_str on a text
ChannelID_from_str(text) ==
    LET d == B64Decode(TrimEndPad(text))
    IN IF d.kind = "err" THEN [kind |-> "err", value |-> <<>>] ELSE TakeId(d.bytes)

\* inputs: byte strings i |-> (a * i + b) mod 256
CodecSteps == {0, 1}
CodecOffsets == {0, 255}
CodecLens == {3, CHANNELID_LEN - 1, CHANNELID_LEN, CHANNELID_LEN + 1, CHANNELID_LEN + 2}
MaxPad == 2
Ramp(n, a, b) == [i \in 1..n |-> (a * i + b) % ByteMod]
CodecValues == {Ramp(CHANNELID_LEN, a, b) : a \in CodecSteps \cup {7, 37}, b \in CodecOffsets \cup {1, 200}}
\* texts: encodings of byte strings of several lengths, as they are, with the
\* last symbol's spare bits set, or with a foreign first character, followed by
\* 0..MaxPad '=' signs
Spoil(text, how) ==
    CASE how = "bits" -> [text EXCEPT ![Len(text)] = (text[Len(text)] + 1) % 64]
      [] how = "char" -> [text EXCEPT ![1] = OtherSym]
      [] OTHER -> text
CodecTexts ==
    {Spoil(B64Encode(Ramp(n, a, b)), how) \o [i \in 1..p |-> PadSym] :
        n \in CodecLens, a \in CodecSteps, b \in CodecOffsets,
        how \in {"none", "bits", "char"}, p \in 0..MaxPad}

NoParse == [kind |-> "none", value |-> <<>>]

InitCodec ==
    /\ channels = EmptyMap
    /\ sessions = EmptyMap
    /\ metrics = [max_conn |-> 0, max_data |-> 0, max_msg |-> 0]
    /\ settings \in {st \in SettingsChoices : st.max_channel_connections = 2 /\ st.max_exchanges = 0}
    /\ sess = EmptyMap
    /\ msgSeq = 0
    /\ \E v \in CodecValues, t \in CodecTexts :
         last = [op |-> "input", value |-> v, text |-> t, parsed |-> NoParse,
                 formatted |-> <<>>]
    /\ clock = ClockZero({})

\* value.as_string() and from_str of the result
FormatThenParse ==
    /\ last.op = "input"
    /\ last' = [last EXCEPT !.op = "as_string",
                             !.formatted = ChannelID_as_string(last.value),
                             !.parsed = ChannelID_from_str(ChannelID_as_string(last.value))]
    /\ UNCHANGED <<channels, sessions, metrics, settings, sess, msgSeq, clock>>

\* from_str(text) and as_string of the id it returns
ParseThenFormat ==
    /\ last.op = "input"
    /\ LET r == ChannelID_from_str(last.text)
       IN last' = [last EXCEPT !.op = "from_str",
                                !.parsed = r,
                                !.formatted = IF r.kind = "ok"
                                              THEN ChannelID_as_string(r.value)
                                              ELSE <<>>]
    /\ UNCHANGED <<channels, sessions, metrics, settings, sess, msgSeq, clock>>

NextCodec == FormatThenParse \/ ParseThenFormat

SpecCodec == InitCodec /\ [][NextCodec]_vars

\* ------------------------------------------------------------ claims (3)
\* C21: the codec round-trips: from_str(as_string(B)) returns B for every
\* CHANNELID_LEN-byte value B, and for every text s that from_str accepts,
\* as_string of the id it returns is s without its trailing padding.
C21_RoundTrip ==
    /\ last.op = "as_string" => last.parsed = [kind |-> "ok", value |-> last.value]
    /\ (last.op = "from_str" /\ last.parsed.kind = "ok")
         => last.formatted = TrimEndPad(last.text)

C21_ValueRoundTrip ==
    last.op = "as_string" => last.parsed = [kind |-> "ok", value |-> last.value]

C21_ExactTextRoundTrip ==
    (last.op = "from_str" /\ last.parsed.kind = "ok"
       /\ Len(B64Decode(TrimEndPad(last.text)).bytes) = CHANNELID_LEN)
    => last.formatted = TrimEndPad(last.text)

C21_Witness == last.op = "from_str" /\ last.parsed.kind = "ok" /\ Len(last.text) = 24

\* ------------------------------------------------ remote address derivation
\* src/channelserver/src/meta.rs get_remote. An IPv4 address is its four
\* octets; its text is four fields of decimal digits, here with the count of
\* blanks written before and after them. A network is a base address and a
\* prefix length.
AddrBits == 32
OctetBits == 8
OctetMod == 256
Pow2(n) == 2 ^ n
IpNet(base, prefix_len) == [base |-> base, prefix_len |-> prefix_len]
IpText(fields, lead, trail) == [fields |-> fields, lead |-> lead, trail |-> trail]

\* IpNet::contains: the host lies between network() and broadcast(), that is,
\* it has the base's leading prefix_len bits
Contains(range, host) ==
    LET whole == range.prefix_len \div OctetBits
        rest == range.prefix_len % OctetBits
    IN /\ \A i \in 1..whole : host[i] = range.base[i]
       /\ rest # 0 => host[whole + 1] \div Pow2(OctetBits - rest)
                        = range.base[whole + 1] \div Pow2(OctetBits - rest)

\* IpAddr::is_loopback: 127.0.0.0/8
IsLoopback(addr) == addr[1] = 127

\* str::trim
Trim(text) == [text EXCEPT !.lead = 0, !.trail = 0]

RECURSIVE DigitsValue(_)
DigitsValue(digits) ==
    IF digits = <<>> THEN 0
    ELSE DigitsValue(SubSeq(digits, 1, Len(digits) - 1)) * 10 + digits[Len(digits)]

RECURSIVE DigitsOf(_)
DigitsOf(n) == IF n < 10 THEN <<n>> ELSE DigitsOf(n \div 10) \o <<n % 10>>

\* a decimal field of an address: one to three digits, no leading zero, at
\* most 255
OctetField(digits) ==
    /\ Len(digits) \in 1..3
    /\ Len(digits) > 1 => digits[1] # 0
    /\ DigitsValue(digits) < OctetMod

\* str::parse::<IpAddr>: four such fields and nothing else
ParseIpAddr(text) ==
    IF /\ text.lead = 0
       /\ text.trail = 0
       /\ Len(text.fields) = 4
       /\ \A i \in 1..4 : OctetField(text.fields[i])
    THEN [kind |-> "ok", addr |-> [i \in 1..4 |-> DigitsValue(text.fields[i])]]
    ELSE [kind |-> "err", addr |-> <<>>]

\* IpAddr::to_string
AddrToString(addr) == IpText([i \in 1..4 |-> DigitsOf(addr[i])], 0, 0)

\* WsChannelSessionState: the private networks, then the configured entries
\* that parse, a bare address as a /32
PrivateNets == <<IpNet(<<10, 0, 0, 0>>, 8), IpNet(<<172, 16, 0, 0>>, 12),
                 IpNet(<<192, 168, 0, 0>>, 16)>>
RECURSIVE ConfiguredNets(_)
ConfiguredNets(entries) ==
    IF entries = <<>> THEN <<>>
    ELSE LET e == Head(entries)
             p == ParseIpAddr(Trim(e.text))
         IN (IF p.kind = "ok"
             THEN <<IpNet(p.addr, IF e.bare THEN AddrBits ELSE e.prefix_len)>>
             ELSE <<>>)
            \o ConfiguredNets(Tail(entries))
TrustedList(entries) == PrivateNets \o ConfiguredNets(entries)

IsTrustedProxy_Always(proxy_list, host) == TRUE
\* is_trusted_proxy
IsTrustedProxy(proxy_list, host) ==
    \E i \in DOMAIN proxy_list : Contains(proxy_list[i], host)

RemoteOk(text) == [kind |-> "ok", remote |-> text, why |-> "none"]
BadRemoteAddr(why) == [kind |-> "err", remote |-> IpText(<<>>, 0, 0), why |-> why]

HostOrder_Forward(host_list) == host_list
\* host_list.reverse()
HostOrder(host_list) ==
    [i \in 1..Len(host_list) |-> host_list[Len(host_list) + 1 - i]]

RECURSIVE WalkHosts(_, _)
\* the for loop over host_list
WalkHosts(host_list, proxy_list) ==
    IF host_list = <<>> THEN BadRemoteAddr("Only proxies specified")
    ELSE LET p == ParseIpAddr(Trim(Head(host_list)))
         IN IF p.kind = "err" THEN BadRemoteAddr("Bad IP Specified")
            ELSE IF ~IsLoopback(p.addr) /\ ~IsTrustedProxy(proxy_list, p.addr)
                 THEN RemoteOk(AddrToString(p.addr))
                 ELSE WalkHosts(Tail(host_list), proxy_list)

\* get_remote. The X-Forwarded-For header is absent, not text, or the list of
\* the pieces between its commas (one piece at least).
GetRemote(peer, header, proxy_list) ==
    IF peer.kind = "none" THEN BadRemoteAddr("Peer is unspecified")
    ELSE IF ~IsTrustedProxy(proxy_list, peer.ip) THEN RemoteOk(AddrToString(peer.ip))
    ELSE CASE header.kind = "absent" ->
                BadRemoteAddr("No X-Forwarded-For found for proxied connection")
           [] header.kind = "opaque" ->
                BadRemoteAddr("Unknown address in X-Forwarded-For")
           [] OTHER -> WalkHosts(HostOrder(header.hosts), proxy_list)

\* inputs
MaxHosts == 3
MaxBlanks == 1
SampleAddrs == {<<1, 2, 3, 4>>, <<2, 3, 4, 5>>, <<192, 168, 0, 4>>,
                <<172, 32, 0, 1>>, <<127, 0, 0, 1>>, <<9, 9, 9, 9>>}
PeerAddrs == [kind : {"some"}, ip : SampleAddrs] \cup {[kind |-> "none", ip |-> <<>>]}
HostTexts ==
    {[AddrToString(a) EXCEPT !.lead = b] : a \in SampleAddrs \ {<<172, 32, 0, 1>>},
                                           b \in 0..MaxBlanks}
    \cup {IpText(<<>>, 0, 0), IpText(<<<<1>>, <<2>>, <<3>>, <<2, 5, 6>>>>, 0, 0),
          IpText(<<<<0, 1>>, <<2>>, <<3>>, <<4>>>>, 0, 0)}
XffHeaders ==
    {[kind |-> k, hosts |-> <<>>] : k \in {"absent", "opaque"}}
    \cup UNION {[kind : {"text"}, hosts : [1..n -> HostTexts]] : n \in 1..MaxHosts}
ConfiguredChoices ==
    {<<>>,
     <<[text |-> IpText(<<<<9>>, <<9>>, <<9>>, <<9>>>>, 1, 0), bare |-> TRUE, prefix_len |-> 0],
       [text |-> IpText(<<>>, 0, 0), bare |-> TRUE, prefix_len |-> 0]>>}

NoRemoteYet == [kind |-> "none", remote |-> IpText(<<>>, 0, 0), why |-> "none"]

InitRemote ==
    /\ channels = EmptyMap
    /\ sessions = EmptyMap
    /\ metrics = [max_conn |-> 0, max_data |-> 0, max_msg |-> 0]
    /\ settings \in [trusted_proxy_list : ConfiguredChoices]
    /\ sess = EmptyMap
    /\ msgSeq = 0
    /\ \E peer \in PeerAddrs, header \in XffHeaders :
         last = [op |-> "request", peer |-> peer, header |-> header,
                 result |-> NoRemoteYet]
    /\ clock = ClockZero({})

\* SenderData::new: the remote of the request
SenderRemote ==
    /\ last.op = "request"
    /\ last' = [last EXCEPT
                  !.op = "get_remote",
                  !.result = GetRemote(last.peer, last.header,
                                       TrustedList(settings.trusted_proxy_list))]
    /\ UNCHANGED <<channels, sessions, metrics, settings, sess, msgSeq, clock>>

NextRemote == SenderRemote

SpecRemote == InitRemote /\ [][NextRemote]_vars

\* ------------------------------------------------------------ claims (4)
C22_InTrustedSet(ip) ==
    \E i \in DOMAIN TrustedList(settings.trusted_proxy_list) :
       Contains(TrustedList(settings.trusted_proxy_list)[i], ip)

\* C22: for a peer outside the trusted-proxy set the remote is the peer's
\* address whatever the X-Forwarded-For header holds (so two requests of one
\* such peer with different headers get the same remote); without a peer
\* address the result is BadRemoteAddr.
C22_UntrustedPeerVerbatim ==
    last.op = "get_remote"
    => /\ last.peer.kind = "none" => last.result.kind = "err"
       /\ (last.peer.kind = "some" /\ ~C22_InTrustedSet(last.peer.ip))
            => last.result = RemoteOk(AddrToString(last.peer.ip))

C22_Witness ==
    /\ last.op = "get_remote"
    /\ last.peer.kind = "some"
    /\ ~C22_InTrustedSet(last.peer.ip)
    /\ last.header.kind = "text"
    /\ last.header.hosts[Len(last.header.hosts)] = AddrToString(<<2, 3, 4, 5>>)
    /\ last.result = RemoteOk(AddrToString(<<1, 2, 3, 4>>))

C23_Qualifies(text) ==
    LET p == ParseIpAddr(Trim(text))
    IN p.kind = "ok" /\ ~IsLoopback(p.addr) /\ ~C22_InTrustedSet(p.addr)

C23_Unparsable(text) == ParseIpAddr(Trim(text)).kind = "err"

C23_ProxiedRequest ==
    last.op = "get_remote" /\ last.peer.kind = "some" /\ C22_InTrustedSet(last.peer.ip)

\* C23 (as stated): behind a trusted proxy the remote is the rightmost
\* X-Forwarded-For element that is a valid address, not loopback and not
\* trusted, elements failing a test being skipped; BadRemoteAddr exactly when
\* there is no such element or no header.
C23_RightmostQualifying ==
    C23_ProxiedRequest
    => LET hosts == last.header.hosts
           good == {i \in DOMAIN hosts : C23_Qualifies(hosts[i])}
       IN IF last.header.kind = "text" /\ good # {}
          THEN LET k == CHOOSE i \in good : \A j \in good : j <= i
               IN last.result = RemoteOk(AddrToString(ParseIpAddr(Trim(hosts[k])).addr))
          ELSE last.result.kind = "err"

\* C23 (amended): the walk from the right skips loopback and trusted
\* addresses only; it ends at the first element that qualifies (the remote)
\* or does not parse as an address (BadRemoteAddr); BadRemoteAddr also when
\* it ends nowhere or the header is missing or not text.
C23_RightmostOrBadIp ==
    C23_ProxiedRequest
    => LET hosts == last.header.hosts
           ends == {i \in DOMAIN hosts : C23_Qualifies(hosts[i]) \/ C23_Unparsable(hosts[i])}
       IN IF last.header.kind = "text" /\ ends # {}
          THEN LET k == CHOOSE i \in ends : \A j \in ends : j <= i
               IN IF C23_Qualifies(hosts[k])
                  THEN last.result = RemoteOk(AddrToString(ParseIpAddr(Trim(hosts[k])).addr))
                  ELSE last.result.kind = "err"
          ELSE last.result.kind = "err"

\* 1.2.3.4, 2.3.4.5, 192.168.0.4 behind a trusted proxy yields 2.3.4.5
C23_Witness ==
    /\ C23_ProxiedRequest
    /\ last.header.kind = "text"
    /\ Len(last.header.hosts) = 3
    /\ Trim(last.header.hosts[1]) = AddrToString(<<1, 2, 3, 4>>)
    /\ Trim(last.header.hosts[3]) = AddrToString(<<192, 168, 0, 4>>)
    /\ last.header.hosts[2].lead = 1
    /\ last.result = RemoteOk(AddrToString(<<2, 3, 4, 5>>))

\* ------------------------------------------------------ long-lived channels
\* A specification for the quota counters over many messages: one channel,
\* two sessions that join before or just after the first message, one of
\* them sending, and
\* settings under which no quota ends the channel early.
NQuotaActors == 2
MaxQuotaMsgs == 258       \* ClientMessage(Text) requests in one run
QuotaJoinBy == 1          \* sessions connect while msgSeq <= QuotaJoinBy
U8Max == 255              \* u8::MAX
QuotaActors == 1..NQuotaActors
QuotaChannel == 1
QuotaTextLen == 4
QuotaSenders == {1}       \* the sockets whose client sends Text frames
QuotaSettings ==
    { [max_channel_connections |-> 2, max_exchanges |-> 0, max_data |-> 0],
      [max_channel_connections |-> 2, max_exchanges |-> U8Max, max_data |-> 0] }

InitQuota ==
    /\ channels = EmptyMap
    /\ sessions = EmptyMap
    /\ metrics = [max_conn |-> 0, max_data |-> 0, max_msg |-> 0]
    /\ settings \in QuotaSettings
    /\ sess = [a \in QuotaActors |-> [state |-> "new", id |-> 0, channel |-> 1, recv |-> 0]]
    /\ msgSeq = 0
    /\ last = [op |-> "init", actor |-> 0, outcome |-> "none", out |-> <<>>]
    /\ clock = ClockZero(QuotaActors)

\* the broker's thread has not panicked
BrokerUp == last.outcome # "panic"

\* socket a connects; the rng draws a fresh id
QuotaConnect(a) ==
    /\ BrokerUp
    /\ msgSeq <= QuotaJoinBy
    /\ \E initial_connect \in BOOLEAN :
         ConnectFrom(a, QuotaChannel, RemoteOf(a), initial_connect, a)
    /\ UNCHANGED clock

\* party.msg_count += 1 on a counter at u8::MAX: send_message reaches, in the
\* order ord, a member whose counter cannot take the increment
CountOverflows(channel, ord, msg_len, skip_id) ==
    /\ channel \in DOMAIN channels
    /\ LET r == SendMessage(channels, channel, ord, msg_len, MsgFrame(msg_len), skip_id)
       IN \E p \in DOMAIN channels[channel] :
            r.chs[channel][p].msg_count < channels[channel][p].msg_count

\* ws::Message::Text where the increment fits, or wraps (a build without
\* overflow checks)
QuotaRelay(a, ord) ==
    /\ BrokerUp
    /\ msgSeq < MaxQuotaMsgs
    /\ RelayText(a, QuotaTextLen, ord)
    /\ msgSeq' = msgSeq + 1
    /\ UNCHANGED clock

\* ws::Message::Text where the increment panics (a build with overflow
\* checks): the handler unwinds and the broker handles nothing further
QuotaPanic(a, ord) ==
    /\ BrokerUp
    /\ msgSeq < MaxQuotaMsgs
    /\ sess[a].state = "attached"
    /\ CountOverflows(sess[a].channel, ord, WrappedLen(QuotaTextLen), sess[a].id)
    /\ last' = [op |-> "Text", actor |-> a, outcome |-> "panic", out |-> <<>>]
    /\ msgSeq' = msgSeq + 1
    /\ UNCHANGED <<channels, sessions, metrics, settings, sess, clock>>

QuotaText(a) ==
    /\ a \in QuotaSenders
    /\ \E ord \in Orders(sess[a].channel) : QuotaRelay(a, ord) \/ QuotaPanic(a, ord)

QuotaClose(a) == BrokerUp /\ WsClose(a)

QuotaStopping(a) == BrokerUp /\ Stopping(a)

NextQuota ==
    \E a \in QuotaActors :
        \/ QuotaConnect(a)
        \/ QuotaText(a)
        \/ QuotaClose(a)
        \/ QuotaStopping(a)

SpecQuota == InitQuota /\ [][NextQuota]_vars

\* ------------------------------------------------------------ claims (5)
\* C24: for every session that is a member of a channel before and after a
\* broker step, msg_count and data_exchanged after the step are not below
\* their values before it.
C24_CountersMonotonic ==
    [][\A c \in (DOMAIN channels) \cap (DOMAIN channels') :
         \A p \in (DOMAIN channels[c]) \cap (DOMAIN channels'[c]) :
            /\ channels'[c][p].msg_count >= channels[c][p].msg_count
            /\ channels'[c][p].data_exchanged >= channels[c][p].data_exchanged]_vars

\* the byte total alone never decreases
C24_DataMonotonic ==
    [][\A c \in (DOMAIN channels) \cap (DOMAIN channels') :
         \A p \in (DOMAIN channels[c]) \cap (DOMAIN channels'[c]) :
            channels'[c][p].data_exchanged >= channels[c][p].data_exchanged]_vars

\* the message counter does not decrease before it reaches u8::MAX
C24_CountMonotonicBelowMax ==
    [][\A c \in (DOMAIN channels) \cap (DOMAIN channels') :
         \A p \in (DOMAIN channels[c]) \cap (DOMAIN channels'[c]) :
            channels[c][p].msg_count < U8Max
            => channels'[c][p].msg_count >= channels[c][p].msg_count]_vars

\* ------------------------------------------------- language preference
\* src/channelserver/src/meta.rs preferred_languages and
\* get_preferred_language_element. A string is the sequence of its ASCII
\* codes (a header value is visible ASCII).
BlankCh == 32
DashCh == 45
ZeroCh == 48
UpperA == 65
UpperZ == 90
CaseGap == 32
Str_en_US == <<101, 110, 45, 85, 83>>    \* "en-US"
Str_en_us == <<101, 110, 45, 117, 115>>    \* "en-us"
Str_es == <<101, 115>>    \* "es"
Str_blank_es == <<32, 101, 115>>    \* " es"
Str_star == <<42>>    \* "*"
Str_dash == <<45>>    \* "-"
Str_frr_DE == <<102, 114, 114, 45, 68, 69>>    \* "frr-DE"
Str_en == <<101, 110>>    \* "en"
Str_fr == <<102, 114>>    \* "fr"
Str_de == <<100, 101>>    \* "de"
Str_q05 == <<113, 61, 48, 46, 53>>    \* "q=0.5"
Str_Q08 == <<32, 81, 61, 48, 46, 56>>    \* " Q=0.8"
Str_q1dot == <<113, 61, 49, 46>>    \* "q=1."

\* str::to_ascii_lowercase
ToAsciiLowercase(s) ==
    [i \in 1..Len(s) |-> IF s[i] \in UpperA..UpperZ THEN s[i] + CaseGap ELSE s[i]]

RECURSIVE TrimStr(_)
\* str::trim
TrimStr(s) ==
    IF s = <<>> THEN s
    ELSE IF s[1] = BlankCh THEN TrimStr(Tail(s))
    ELSE IF s[Len(s)] = BlankCh THEN TrimStr(SubSeq(s, 1, Len(s) - 1))
    ELSE s

RECURSIVE StrLess(_, _)
\* the order of String keys in a BTreeMap: byte by byte, a prefix first
StrLess(s, t) ==
    IF t = <<>> THEN FALSE
    ELSE IF s = <<>> THEN TRUE
    ELSE IF s[1] # t[1] THEN s[1] < t[1]
    ELSE StrLess(Tail(s), Tail(t))

RECURSIVE MapValues(_)
\* BTreeMap::values: the values in the order of their keys
MapValues(tree) ==
    IF DOMAIN tree = {} THEN <<>>
    ELSE LET k == CHOOSE x \in DOMAIN tree : \A y \in (DOMAIN tree) \ {x} : StrLess(x, y)
         IN <<tree[k]>> \o MapValues(Remove(tree, k))

\* format!("q=1.{:02}", i)
UnweightedKey(i) == Str_q1dot \o <<ZeroCh + ((i \div 10) % 10), ZeroCh + (i % 10)>>

\* one piece of alheader.split(','): its text before the first ';', and the
\* text after it if it has one
Piece(lang, pref, weighted) == [lang |-> lang, pref |-> pref, weighted |-> weighted]

RECURSIVE LangTree(_, _, _)
\* the for_each over the pieces: lang_tree after them
LangTree(pieces, i, lang_tree) ==
    IF pieces = <<>> THEN lang_tree
    ELSE LET l == Head(pieces)
         IN IF ~l.weighted /\ l.lang = Str_dash
            THEN LangTree(Tail(pieces), i, lang_tree)
            ELSE IF l.weighted
            THEN LangTree(Tail(pieces), i,
                          Put(lang_tree, TrimStr(ToAsciiLowercase(l.pref)),
                              TrimStr(ToAsciiLowercase(l.lang))))
            ELSE LangTree(Tail(pieces), i + 1,
                          Put(lang_tree, UnweightedKey(i), ToAsciiLowercase(l.lang)))

Reversed(s) == [i \in 1..Len(s) |-> s[Len(s) + 1 - i]]

\* preferred_languages
PreferredLanguages(alheader, default) ==
    Append(Reversed(MapValues(LangTree(alheader, 0, EmptyMap))), default)

\* elements.values().next()
FirstValue(elements) ==
    IF DOMAIN elements = {} THEN [kind |-> "none", value |-> ""]
    ELSE [kind |-> "some", value |-> MapValues(elements)[1]]

\* lang.split_at(2).0
Primary(lang) == SubSeq(lang, 1, 2)

HasDash(lang) == \E i \in 1..Len(lang) : lang[i] = DashCh

RECURSIVE GetPreferredLanguageElement(_, _)
\* get_preferred_language_element
GetPreferredLanguageElement(langs, elements) ==
    IF langs = <<>> THEN [kind |-> "none", value |-> ""]
    ELSE LET lang == Head(langs)
         IN IF lang = Str_star \/ lang = Str_dash THEN FirstValue(elements)
            ELSE IF lang \in DOMAIN elements
            THEN [kind |-> "some", value |-> elements[lang]]
            ELSE IF HasDash(lang) /\ Primary(lang) \in DOMAIN elements
            THEN [kind |-> "some", value |-> elements[Primary(lang)]]
            ELSE GetPreferredLanguageElement(Tail(langs), elements)

\* inputs
MaxPieces == 3
LangTags == {Str_en_US, Str_es, Str_blank_es, Str_star, Str_frr_DE, Str_dash}
Prefs == {Str_q05, Str_Q08}
Pieces ==
    {Piece(t, <<>>, FALSE) : t \in LangTags}
    \cup {Piece(t, q, TRUE) : t \in LangTags \ {Str_blank_es}, q \in Prefs}
\* header values: one to MaxPieces pieces, no blank before the first
AcceptLanguages ==
    {h \in UNION {[1..n -> Pieces] : n \in 1..MaxPieces} : h[1].lang # Str_blank_es}
DefaultLang == Str_en
\* names: Some({"lang": "name", ...}) of a GeoIP record
NameMaps ==
    {EmptyMap,
     (Str_de :> "Kalifornien") @@ (Str_en :> "California") @@ (Str_fr :> "Californie"),
     (Str_fr :> "Californie") @@ (Str_es :> "California (es)"),
     (Str_de :> "Kalifornien") @@ (Str_fr :> "Californie")}

InitLang ==
    /\ channels = EmptyMap
    /\ sessions = EmptyMap
    /\ metrics = [max_conn |-> 0, max_data |-> 0, max_msg |-> 0]
    /\ settings = [default_lang |-> DefaultLang]
    /\ sess = EmptyMap
    /\ msgSeq = 0
    /\ \E h \in AcceptLanguages :
         last = [op |-> "request", alheader |-> h, langs |-> <<>>, names |-> EmptyMap,
                 found |-> [kind |-> "none", value |-> ""]]
    /\ clock = ClockZero({})

\* SenderData::new: the list of languages of the request
SenderLangs ==
    /\ last.op = "request"
    /\ last' = [last EXCEPT !.op = "preferred_languages",
                            !.langs = PreferredLanguages(last.alheader, settings.default_lang)]
    /\ UNCHANGED <<channels, sessions, metrics, settings, sess, msgSeq, clock>>

\* get_location: the name chosen from the names of one GeoIP record
LocationName ==
    /\ last.op = "preferred_languages"
    /\ \E names \in NameMaps :
         last' = [last EXCEPT !.op = "get_location", !.names = names,
                              !.found = GetPreferredLanguageElement(last.langs, names)]
    /\ UNCHANGED <<channels, sessions, metrics, settings, sess, msgSeq, clock>>

NextLang == SenderLangs \/ LocationName

SpecLang == InitLang /\ [][NextLang]_vars

\* ------------------------------------------------------------ claims (6)
\* the q-value of a piece in thousandths: "q=d.ddd", absent counts as 1.0
C25_Digit(s, i) == IF i <= Len(s) THEN s[i] - ZeroCh ELSE 0
C25_Q(piece) ==
    IF ~piece.weighted THEN 1000
    ELSE LET t == TrimStr(ToAsciiLowercase(piece.pref))
         IN C25_Digit(t, 3) * 1000 + C25_Digit(t, 5) * 100 + C25_Digit(t, 6) * 10
            + C25_Digit(t, 7)

C25_Tagged(pieces) ==
    SelectSeq(pieces, LAMBDA p : ~(~p.weighted /\ p.lang = Str_dash))

RECURSIVE C25_ByQ(_)
\* stable sort by descending q
C25_ByQ(pieces) ==
    IF pieces = <<>> THEN <<>>
    ELSE LET k == CHOOSE i \in 1..Len(pieces) :
                    /\ \A j \in 1..Len(pieces) : C25_Q(pieces[j]) <= C25_Q(pieces[i])
                    /\ \A j \in 1..(i - 1) : C25_Q(pieces[j]) < C25_Q(pieces[i])
         IN <<pieces[k]>>
            \o C25_ByQ(SubSeq(pieces, 1, k - 1) \o SubSeq(pieces, k + 1, Len(pieces)))

C25_Expected(pieces, default) ==
    LET sorted == C25_ByQ(C25_Tagged(pieces))
    IN [i \in 1..Len(sorted) |-> TrimStr(ToAsciiLowercase(sorted[i].lang))] \o <<default>>

\* C25: preferred_languages returns the lowercased tags of the header by
\* descending q (absent q = 1.0), tags of equal q in their order of
\* appearance and none dropped, then the default language; the header "-"
\* gives the default alone.
C25_PreferredOrder ==
    last.op = "preferred_languages"
    => last.langs = C25_Expected(last.alheader, settings.default_lang)

\* the same for headers whose pieces have pairwise different q and no blank
C25_DistinctQ ==
    (/\ last.op = "preferred_languages"
     /\ \A i, j \in DOMAIN last.alheader :
          i # j => C25_Q(last.alheader[i]) # C25_Q(last.alheader[j])
     /\ \A i \in DOMAIN last.alheader : last.alheader[i].lang # Str_blank_es)
    => last.langs = C25_Expected(last.alheader, settings.default_lang)

\* "en-US,es;q=0.5,*; Q=0.8" gives en-us, *, es, en
C25_Witness ==
    /\ last.op = "preferred_languages"
    /\ last.alheader = <<Piece(Str_en_US, <<>>, FALSE), Piece(Str_es, Str_q05, TRUE),
                         Piece(Str_star, Str_Q08, TRUE)>>
    /\ last.langs = <<Str_en_us, Str_star, Str_es, Str_en>>

\* the primary subtag of a tag: its text before the first '-'
C26_PrimarySubtag(lang) ==
    SubSeq(lang, 1, (CHOOSE i \in 1..Len(lang) :
                        lang[i] = DashCh /\ \A j \in 1..(i - 1) : lang[j] # DashCh) - 1)

C26_Matches(lang, elements) ==
    \/ lang = Str_star /\ DOMAIN elements # {}
    \/ lang \in DOMAIN elements
    \/ HasDash(lang) /\ C26_PrimarySubtag(lang) \in DOMAIN elements

C26_ValueFor(lang, elements, value) ==
    IF lang = Str_star THEN \E k \in DOMAIN elements : value = elements[k]
    ELSE IF lang \in DOMAIN elements THEN value = elements[lang]
    ELSE value = elements[C26_PrimarySubtag(lang)]

\* C26: get_preferred_language_element returns the value of the first
\* preference that matches (verbatim, else by its primary subtag if it has a
\* '-', and any value for '*'), and none exactly when no preference matches.
C26_FirstMatch ==
    last.op = "get_location"
    => LET hits == {i \in DOMAIN last.langs : C26_Matches(last.langs[i], last.names)}
       IN IF hits = {} THEN last.found.kind = "none"
          ELSE LET k == CHOOSE i \in hits : \A j \in hits : i <= j
               IN /\ last.found.kind = "some"
                  /\ C26_ValueFor(last.langs[k], last.names, last.found.value)

\* the same for lists without the tag "-" and whose tags with a '-' have a
\* two-letter primary subtag
C26_TwoLetterPrimaries ==
    (/\ last.op = "get_location"
     /\ \A i \in DOMAIN last.langs :
          /\ last.langs[i] # Str_dash
          /\ HasDash(last.langs[i]) => Len(C26_PrimarySubtag(last.langs[i])) = 2)
    => LET hits == {i \in DOMAIN last.langs : C26_Matches(last.langs[i], last.names)}
       IN IF hits = {} THEN last.found.kind = "none"
          ELSE LET k == CHOOSE i \in hits : \A j \in hits : i <= j
               IN /\ last.found.kind = "some"
                  /\ C26_ValueFor(last.langs[k], last.names, last.found.value)

\* a tag with a three-letter primary subtag is answered with the name of
\* another language
C26_WrongLanguage ==
    /\ last.op = "get_location"
    /\ last.langs[1] = ToAsciiLowercase(Str_frr_DE)
    /\ last.found = [kind |-> "some", value |-> "Californie"]

\* ------------------------------------------------------------ claims (7)
\* C30: a session whose Connect is answered with 0 stops at once: it is never
\* attached, forwards no ClientMessage to the broker and sends no Ping.
C30_ZeroReplyCloses ==
    [][\A a \in HbActors :
        /\ (HbStarted(a) /\ sess'[a].id = 0) => sess'[a].state = "stopping"
        /\ (sess[a].state \in {"stopping", "stopped"} /\ sess[a].id = 0)
             => /\ sess'[a].state \in {"stopping", "stopped"}
                /\ ~WsText(a)
                /\ ~(HbTick(a) /\ last'.outcome = "ping")]_vars

\* a rejected session is closing while its channel lives on and time passes
C30_Witness ==
    /\ \E a \in HbActors :
         /\ sess[a].state = "stopping"
         /\ sess[a].id = 0
         /\ sess[a].channel \in DOMAIN channels
         /\ \E b \in HbActors \ {a} : sess[b].state = "attached"
    /\ last.op = "Tick"

\* ------------------------------------------------------- actors' mailboxes
\* A specification of the message passing between the sessions and the
\* broker: every request of a session (Connect, ClientMessage, Disconnect)
\* waits in the broker's mailbox until the broker handles it, and every frame
\* the broker pushes waits in the session's mailbox until the session handles
\* it.  sess has an entry for the broker too; only its mailbox is used.
NMailActors == 2          \* sockets that may ever be started
MaxMailMsgs == 2          \* Text frames a client sends
BrokerActor == 0
MailActors == 1..NMailActors
MailSenders == {1, 2}        \* the sockets whose client sends Text frames
MailIds == 1..2           \* rng.gen::<usize>() draws from MailIds
MailChannel == 1
MailTextLen == 4
MailSettings ==
    { [max_channel_connections |-> 3, max_exchanges |-> x, max_data |-> 0] : x \in {0, 1} }

NoReply == [kind |-> "none", id |-> 0]
MailboxEntry(state) ==
    [state |-> state, id |-> 0, channel |-> MailChannel, recv |-> 0,
     reply |-> NoReply, mail |-> <<>>, seen |-> <<>>, got |-> <<>>, sent |-> 0]

\* requests to the broker
ConnectReq(a, channel, initial_connect) ==
    [kind |-> "Connect", actor |-> a, id |-> 0, channel |-> channel,
     initial_connect |-> initial_connect, serial |-> 0]
TextReq(a, id, channel, serial) ==
    [kind |-> "Text", actor |-> a, id |-> id, channel |-> channel,
     initial_connect |-> FALSE, serial |-> serial]
DisconnectReq(a, id, channel) ==
    [kind |-> "Disconnect", actor |-> a, id |-> id, channel |-> channel,
     initial_connect |-> FALSE, serial |-> 0]

\* the relayed frame of the serial-th Text of socket a
MailFrame(a, serial) ==
    [type |-> "Text", body |-> <<"msg", WrappedLen(MailTextLen)>>, text |-> <<a, serial>>]

Enqueue_Front(mail, item) == <<item>> \o mail
\* do_send / send: the item joins the end of the receiver's mailbox
Enqueue(mail, item) == Append(mail, item)

RECURSIVE Deliver(_, _)
\* addr.do_send(TextMessage(..)) for the frames out of one handler run; the
\* mailbox of a stopped actor is closed and the frame dropped. seen keeps the
\* relayed messages pushed to a session, got those it has written out.
Deliver(ss, out) ==
    IF out = <<>> THEN ss
    ELSE LET b == Head(out)[1]
             f == Head(out)[2]
         IN Deliver(IF ss[b].state = "stopped" THEN ss
                    ELSE [ss EXCEPT ![b].mail = Enqueue(@, f),
                                    ![b].seen = IF f.body[1] = "msg"
                                                THEN Append(@, f.text) ELSE @],
                    Tail(out))

InitMailbox ==
    /\ channels = EmptyMap
    /\ sessions = EmptyMap
    /\ metrics = [max_conn |-> 0, max_data |-> 0, max_msg |-> 0]
    /\ settings \in MailSettings
    /\ sess = [a \in {BrokerActor} \cup MailActors |->
                 MailboxEntry(IF a = BrokerActor THEN "broker" ELSE "new")]
    /\ msgSeq = 0
    /\ last = [op |-> "init", actor |-> 0, outcome |-> "none", out |-> <<>>,
               pending |-> <<>>]
    /\ clock = ClockZero({})

\* WsChannelSession::started: Connect is sent, the context waits for the reply
MailStarted(a) ==
    /\ sess[a].state = "new"
    /\ \A b \in 1..(a - 1) : sess[b].state # "new"
    /\ \E initial_connect \in BOOLEAN :
         sess' = [sess EXCEPT ![a].state = "connecting",
                              ![BrokerActor].mail =
                                  Enqueue(@, ConnectReq(a, MailChannel, initial_connect))]
    /\ UNCHANGED <<channels, sessions, metrics, settings, msgSeq, last, clock>>

Pending(kind) ==
    sess[BrokerActor].mail # <<>> /\ Head(sess[BrokerActor].mail).kind = kind

\* the broker handles the Connect at the head of its mailbox; last.pending
\* are the requests that wait meanwhile
BrokerConnect(session_id) ==
    /\ Pending("Connect")
    /\ LET req == Head(sess[BrokerActor].mail)
           r == HandleConnect(req.actor, req.channel, RemoteOf(req.actor),
                              req.initial_connect, session_id)
       IN /\ channels' = r.chs
          /\ sessions' = r.ses
          /\ metrics' = r.met
          /\ sess' = Deliver([sess EXCEPT ![BrokerActor].mail = Tail(@),
                                          ![req.actor].reply = [kind |-> "some", id |-> r.reply]],
                             r.out)
          /\ last' = [op |-> "Connect", actor |-> req.actor, outcome |-> r.outcome,
                      out |-> r.out, pending |-> Tail(sess[BrokerActor].mail)]
    /\ UNCHANGED <<settings, msgSeq, clock>>

\* the broker handles the ClientMessage(Text) at the head of its mailbox
BrokerText(ord) ==
    /\ Pending("Text")
    /\ LET req == Head(sess[BrokerActor].mail)
           r == HandleText(req.channel, req.id, ord, WrappedLen(MailTextLen),
                           MailFrame(req.actor, req.serial))
       IN /\ channels' = r.chs
          /\ sessions' = r.ses
          /\ metrics' = r.met
          /\ sess' = Deliver([sess EXCEPT ![BrokerActor].mail = Tail(@)], r.out)
          /\ last' = [op |-> "Text", actor |-> req.actor, outcome |-> r.err, out |-> r.out,
                      pending |-> Tail(sess[BrokerActor].mail)]
    /\ UNCHANGED <<settings, msgSeq, clock>>

\* the broker handles the Disconnect at the head of its mailbox
BrokerDisconnect ==
    /\ Pending("Disconnect")
    /\ LET req == Head(sess[BrokerActor].mail)
           r == Disconnect(channels, sessions, req.channel, req.id)
       IN /\ channels' = r.chs
          /\ sessions' = r.ses
          /\ sess' = Deliver([sess EXCEPT ![BrokerActor].mail = Tail(@)], r.out)
          /\ last' = [op |-> "Disconnect", actor |-> req.actor, outcome |-> "none",
                      out |-> r.out, pending |-> Tail(sess[BrokerActor].mail)]
    /\ UNCHANGED <<metrics, settings, msgSeq, clock>>

BrokerStep ==
    \/ \E session_id \in MailIds : BrokerConnect(session_id)
    \/ \E ord \in Orders(MailChannel) : BrokerText(ord)
    \/ BrokerDisconnect

\* the callback of started(): the reply has arrived
MailReply(a) ==
    /\ sess[a].state = "connecting"
    /\ sess[a].reply.kind = "some"
    /\ sess' = [sess EXCEPT ![a].state = StateOnReply(sess[a].reply.id),
                            ![a].id = sess[a].reply.id]
    /\ UNCHANGED <<channels, sessions, metrics, settings, msgSeq, last, clock>>

\* faulty variant: a Terminate is handled like a Text
OnTextMessage_Ignore(frame) == "attached"
\* Handler<TextMessage>::handle: Terminate => ctx.stop(), Text => ctx.text
OnTextMessage(frame) == IF frame.type = "Terminate" THEN "stopping" ELSE "attached"

\* the session handles the frame at the head of its mailbox
MailHandle(a) ==
    /\ sess[a].state = "attached"
    /\ sess[a].mail # <<>>
    /\ sess' = [sess EXCEPT ![a].mail = Tail(@),
                            ![a].state = OnTextMessage(Head(sess[a].mail)),
                            ![a].recv = IF Head(sess[a].mail).type = "Text" THEN @ + 1 ELSE @,
                            ![a].got = IF Head(sess[a].mail).body[1] = "msg"
                                       THEN Append(@, Head(sess[a].mail).text) ELSE @]
    /\ UNCHANGED <<channels, sessions, metrics, settings, msgSeq, last, clock>>

\* ws::Message::Text: ClientMessage(Text) is sent to the broker
MailWsText(a) ==
    /\ a \in MailSenders
    /\ sess[a].state = "attached"
    /\ sess[a].sent < MaxMailMsgs
    /\ sess' = [sess EXCEPT ![a].sent = @ + 1,
                            ![BrokerActor].mail =
                                Enqueue(@, TextReq(a, sess[a].id, sess[a].channel,
                                                   sess[a].sent + 1))]
    /\ UNCHANGED <<channels, sessions, metrics, settings, msgSeq, last, clock>>

\* ws::Message::Close: Disconnect is sent, then ctx.stop()
MailWsClose(a) ==
    /\ sess[a].state = "attached"
    /\ sess' = [sess EXCEPT ![a].state = "stopping",
                            ![BrokerActor].mail =
                                Enqueue(@, DisconnectReq(a, sess[a].id, sess[a].channel))]
    /\ UNCHANGED <<channels, sessions, metrics, settings, msgSeq, last, clock>>

\* WsChannelSession::stopping: the final Disconnect; the actor and its
\* mailbox are gone after it
MailStopping(a) ==
    /\ sess[a].state = "stopping"
    /\ sess' = [sess EXCEPT ![a].state = "stopped",
                            ![a].mail = <<>>,
                            ![BrokerActor].mail =
                                Enqueue(@, DisconnectReq(a, sess[a].id, sess[a].channel))]
    /\ UNCHANGED <<channels, sessions, metrics, settings, msgSeq, last, clock>>

NextMailbox ==
    \/ BrokerStep
    \/ \E a \in MailActors :
        \/ MailStarted(a)
        \/ MailReply(a)
        \/ MailHandle(a)
        \/ MailWsText(a)
        \/ MailWsClose(a)
        \/ MailStopping(a)

SpecMailbox == InitMailbox /\ [][NextMailbox]_vars

\* What a session's context does without a word from its client: the callback
\* on the reply, the frame at the head of the mailbox, stopping().
SessionPolled(a) == MailReply(a) \/ MailHandle(a) \/ MailStopping(a)

\* The arbiter polls each session's context as long as it has something to
\* handle; nothing is assumed of the clients or of the broker.
SpecMailboxFair == SpecMailbox /\ \A a \in MailActors : WF_vars(SessionPolled(a))

\* ------------------------------------------------------------ claims (8)
C27_InOrderOnce(texts) ==
    \A i, j \in DOMAIN texts :
        i < j => /\ texts[i] # texts[j]
                 /\ texts[i][1] = texts[j][1] => texts[i][2] < texts[j][2]

\* C27: of two Text messages of one sender, every session pushed both is
\* pushed, and writes out, the earlier one first; no session is pushed a
\* message twice.
C27_SenderOrder ==
    \A b \in MailActors : C27_InOrderOnce(sess[b].seen) /\ C27_InOrderOnce(sess[b].got)

\* a session has written out both messages of one sender while the other
\* session's messages were relayed as well
C27_Witness ==
    \E b \in MailActors :
        /\ Len(sess[b].got) = MaxMailMsgs
        /\ sess[b].got[1][1] = sess[b].got[2][1]
        /\ \E c \in MailActors \ {b} : sess[c].seen # <<>>

C29_HasTerminate(a) ==
    \E i \in DOMAIN sess[a].mail : sess[a].mail[i].type = "Terminate"

C29_Closing(a) == sess[a].state \in {"stopping", "stopped"}

\* C29: a session with a Terminate in its mailbox eventually stops, and a
\* session that has stopped forwards no further ClientMessage(Text).
C29_TerminateStops ==
    /\ \A a \in MailActors : C29_HasTerminate(a) ~> C29_Closing(a)
    /\ [][\A a \in MailActors :
            C29_Closing(a) => (C29_Closing(a)' /\ sess'[a].sent = sess[a].sent)]_vars

\* a session stopped on the Terminate of a shutdown after a quota violation
C29_Witness ==
    /\ last.op = "Text"
    /\ last.outcome = "XSMessage"
    /\ \E a \in MailActors :
         /\ sess[a].state = "stopping"
         /\ \E i \in DOMAIN last.out : last.out[i] = <<a, TerminateFrame>>
         /\ ~C29_HasTerminate(a)

\* ------------------------------------------------------------ claims (9)
\* the session's id is no member of its channel (any more), or the channel
\* is gone
C31_Removed(a) ==
    \/ sess[a].channel \notin DOMAIN channels
    \/ sess[a].id \notin DOMAIN channels[sess[a].channel]

\* C31: a session that is stopping, by whatever path it got there, sends a
\* final Disconnect with its channel and id, and when the broker handles that
\* Disconnect after the session was removed, the broker's registries do not
\* change and nothing is pushed.
C31_FinalDisconnect ==
    [][\A a \in Actors :
        (sess[a].state = "stopping" => ENABLED Stopping(a))
        /\ (Stopping(a) /\ C31_Removed(a)
            => /\ channels' = channels
               /\ sessions' = sessions
               /\ last'.out = <<>>)]_vars

\* The same step, apart from a channel that exists without members: there
\* the final Disconnect of a removed session changes nothing.
C31_NoEffectUnlessEmpty ==
    [][\A a \in Actors :
        Stopping(a) /\ C31_Removed(a)
        /\ (sess[a].channel \in DOMAIN channels => DOMAIN channels[sess[a].channel] # {})
        => /\ channels' = channels
           /\ sessions' = sessions
           /\ last'.out = <<>>]_vars

\* ------------------------------------------- the stream of a session's socket
\* A specification for StreamHandler::handle, the hb closure and the callback
\* of started() of WsChannelSession: two sockets, the frames of their clients
\* as inputs, the broker's handlers run when a request is sent to it.  Times
\* are in seconds.
NFrActors == 2        \* sockets that may ever be started
FrActors == 1..NFrActors
FrTextLen == 4
\* ws::Message, and Err(ProtocolError)
FrameKinds == {"Ping", "Pong", "Text", "Binary", "Close", "Continuation", "Nop", "Error"}
\* Instant::now().duration_since(act.hb) at a run of the hb closure
FrIdles == {0, 6, 11}
\* a channel for one and for two, the message quota off and on
FrSettings ==
    { [max_channel_connections |-> m[1], max_exchanges |-> m[2], max_data |-> 0,
       conn_lifespan |-> 5, client_timeout |-> 30] :
         m \in {<<1, 0>>, <<2, 0>>, <<2, 1>>} }

\* what the session last sent to the broker
NoRequest == [kind |-> "none", id |-> 0, channel |-> 0]
Request(kind, a) == [kind |-> kind, id |-> sess[a].id, channel |-> sess[a].channel]
\* the Connect the session sent and the reply it got
NotConnected == [kind |-> "none", id |-> 0, channel |-> 0]

InitFrames ==
    /\ channels = EmptyMap
    /\ sessions = EmptyMap
    /\ metrics = [max_conn |-> 0, max_data |-> 0, max_msg |-> 0,
                  create |-> 0, expired |-> 0, timeout |-> 0]
    /\ settings \in FrSettings
    /\ sess \in [FrActors -> [state : {"new"}, id : {0}, channel : ChannelIDs, recv : {0},
                              reply : {NotConnected}, term : {FALSE}]]
    /\ msgSeq = 0
    /\ last = [op |-> "init", actor |-> 0, outcome |-> "none", out |-> <<>>,
               req |-> NoRequest]
    /\ clock = ClockZero({})

RECURSIVE FrReceive(_, _)
\* the frames of one handler run reach the mailboxes of their sessions
FrReceive(ss, out) ==
    IF out = <<>> THEN ss
    ELSE LET b == Head(out)[1]
             f == Head(out)[2]
         IN FrReceive(IF f.type = "Terminate" THEN [ss EXCEPT ![b].term = TRUE]
                      ELSE IF f.body[1] = "msg" THEN [ss EXCEPT ![b].recv = @ + 1]
                      ELSE ss,
                      Tail(out))

\* started(): hb is scheduled, Connect is sent and the context waits for the
\* reply; the broker handles the Connect.
FrStarted(a) ==
    /\ sess[a].state = "new"
    /\ \A b \in 1..(a - 1) : sess[b].state # "new"
    /\ \E initial_connect \in BOOLEAN, session_id \in SessionIds :
         LET r == HandleConnect(a, sess[a].channel, RemoteOf(a), initial_connect,
                                session_id)
         IN /\ channels' = r.chs
            /\ sessions' = r.ses
            /\ metrics' = r.met
            /\ sess' = FrReceive([sess EXCEPT ![a].state = "connecting",
                                              ![a].reply = [kind |-> "some", id |-> r.reply,
                                                            channel |-> sess[a].channel]],
                                 r.out)
            /\ last' = [op |-> "Connect", actor |-> a, outcome |-> r.outcome,
                        out |-> r.out, req |-> Request("Connect", a)]
    /\ UNCHANGED <<settings, msgSeq, clock>>

\* let _ = act.metrics.incr("conn.create"), after the test of session_id
CreateOnReply(count, session_id) == count + 1

\* the callback on the reply: Ok(session_id)
FrReply(a) ==
    /\ sess[a].state = "connecting"
    /\ sess[a].reply.kind = "some"
    /\ sess' = [sess EXCEPT ![a].state = StateOnReply(sess[a].reply.id),
                            ![a].id = sess[a].reply.id]
    /\ metrics' = [metrics EXCEPT !.create = CreateOnReply(@, sess[a].reply.id)]
    /\ last' = [op |-> "Reply", actor |-> a, outcome |-> "none", out |-> <<>>,
                req |-> NoRequest]
    /\ UNCHANGED <<channels, sessions, settings, msgSeq, clock>>

\* faulty variant: the context does not wait for the reply
Polls_Waiting(state) == state \in {"connecting", "attached"}
\* .wait(ctx), ctx.stop(): the context takes stream items, mailbox items and
\* interval runs only when it neither waits nor stops
Polls(state) == state = "attached"

\* the arms of StreamHandler::handle that end in ctx.stop()
Stops(kind) == kind \in {"Error", "Close", "Continuation"}

\* StreamHandler::handle for one inbound item of the socket
FrFrame(a, kind) ==
    /\ Polls(sess[a].state)
    /\ IF kind = "Text"
       THEN /\ msgSeq < MaxMsgs
            /\ msgSeq' = msgSeq + 1
            /\ \E ord \in Orders(sess[a].channel) :
                 LET r == HandleText(sess[a].channel, sess[a].id, ord,
                                     WrappedLen(FrTextLen), MsgFrame(WrappedLen(FrTextLen)))
                 IN /\ channels' = r.chs
                    /\ sessions' = r.ses
                    /\ metrics' = r.met
                    /\ sess' = FrReceive(sess, r.out)
                    /\ last' = [op |-> kind, actor |-> a, outcome |-> r.err,
                                out |-> r.out, req |-> Request("Text", a)]
       ELSE IF kind = "Close"
       THEN LET r == Disconnect(channels, sessions, sess[a].channel, sess[a].id)
            IN /\ channels' = r.chs
               /\ sessions' = r.ses
               /\ sess' = [FrReceive(sess, r.out) EXCEPT ![a].state = "stopping"]
               /\ last' = [op |-> kind, actor |-> a, outcome |-> "none", out |-> r.out,
                           req |-> Request("Disconnect", a)]
               /\ UNCHANGED <<metrics, msgSeq>>
       ELSE /\ sess' = [sess EXCEPT ![a].state = IF Stops(kind) THEN "stopping" ELSE @]
            /\ last' = [op |-> kind, actor |-> a, outcome |-> "none", out |-> <<>>,
                        req |-> NoRequest]
            /\ UNCHANGED <<channels, sessions, metrics, msgSeq>>
    /\ UNCHANGED <<settings, clock>>

\* the closure of ctx.run_interval(HEARTBEAT_INTERVAL, ..) with idle seconds
\* since act.hb
FrTick(a, idle) ==
    /\ Polls(sess[a].state)
    /\ IF idle > CLIENT_TIMEOUT \/ idle > settings.conn_lifespan
       THEN LET r == Disconnect(channels, sessions, sess[a].channel, sess[a].id)
            IN /\ channels' = r.chs
               /\ sessions' = r.ses
               /\ metrics' = IF idle > CLIENT_TIMEOUT
                             THEN [metrics EXCEPT !.expired = @ + 1]
                             ELSE [metrics EXCEPT !.timeout = @ + 1]
               /\ sess' = [FrReceive(sess, r.out) EXCEPT ![a].state = "stopping"]
               /\ last' = [op |-> "Tick", actor |-> a,
                           outcome |-> IF idle > CLIENT_TIMEOUT THEN "expired"
                                       ELSE "timeout",
                           out |-> r.out, req |-> Request("Disconnect", a)]
       ELSE /\ last' = [op |-> "Tick", actor |-> a, outcome |-> "ping", out |-> <<>>,
                        req |-> NoRequest]
            /\ UNCHANGED <<channels, sessions, metrics, sess>>
    /\ UNCHANGED <<settings, msgSeq, clock>>

\* Handler<TextMessage>::handle for a Terminate in the session's mailbox
FrTerminate(a) ==
    /\ Polls(sess[a].state)
    /\ sess[a].term
    /\ sess' = [sess EXCEPT ![a].state = OnTextMessage(TerminateFrame)]
    /\ last' = [op |-> "Terminate", actor |-> a, outcome |-> "none", out |-> <<>>,
                req |-> NoRequest]
    /\ UNCHANGED <<channels, sessions, metrics, settings, msgSeq, clock>>

\* stopping(): the final Disconnect, then the actor is gone
FrStopping(a) ==
    /\ sess[a].state = "stopping"
    /\ LET r == Disconnect(channels, sessions, sess[a].channel, sess[a].id)
       IN /\ channels' = r.chs
          /\ sessions' = r.ses
          /\ sess' = [FrReceive(sess, r.out) EXCEPT ![a].state = "stopped"]
          /\ last' = [op |-> "Stopping", actor |-> a, outcome |-> "none", out |-> r.out,
                      req |-> Request("Disconnect", a)]
    /\ UNCHANGED <<metrics, settings, msgSeq, clock>>

NextFrames ==
    \E a \in FrActors :
        \/ FrStarted(a)
        \/ FrReply(a)
        \/ \E kind \in FrameKinds : FrFrame(a, kind)
        \/ \E idle \in FrIdles : FrTick(a, idle)
        \/ FrTerminate(a)
        \/ FrStopping(a)

SpecFrames == InitFrames /\ [][NextFrames]_vars

\* ----------------------------------------------------------- claims (10)
\* C32: a Binary frame and a Continuation frame each stop an attached
\* session, and neither is forwarded to the broker.
C32_BinaryAndContinuationClose ==
    [][\A a \in FrActors : \A kind \in {"Binary", "Continuation"} :
        FrFrame(a, kind)
        => /\ sess'[a].state = "stopping"
           /\ last'.req = NoRequest
           /\ UNCHANGED <<channels, sessions>>]_vars

\* A Continuation frame stops the session; neither frame is forwarded.
C32_ContinuationCloses ==
    [][\A a \in FrActors : \A kind \in {"Binary", "Continuation"} :
        FrFrame(a, kind)
        => /\ kind = "Continuation" => sess'[a].state = "stopping"
           /\ last'.req = NoRequest
           /\ UNCHANGED <<channels, sessions>>]_vars

\* A Binary frame leaves the session as it is.
C32_BinaryIgnored ==
    [][\A a \in FrActors : FrFrame(a, "Binary") => sess' = sess]_vars

\* the sessions whose reply has been handled
C33_Replied == {a \in FrActors : sess[a].state \in {"attached", "stopping", "stopped"}}

\* C33: conn.create counts the accepted sessions, those with a reply other
\* than 0, and no rejected one.
C33_CreatePerAccepted ==
    metrics.create = Cardinality({a \in C33_Replied : sess[a].reply.id # 0})

\* conn.create counts every reply handled, whatever it was.
C33_CreatePerReply == metrics.create = Cardinality(C33_Replied)

\* ----------------------------------------------------------- claims (11)
\* C40: a session handles no inbound frame and runs no hb closure before the
\* reply to its Connect has been handled, and every ClientMessage(Text) it
\* sends carries the id of that reply, which is not 0, and the channel of
\* its Connect.
C40_NothingBeforeReply ==
    [][\A a \in FrActors :
        /\ \A kind \in FrameKinds :
             FrFrame(a, kind)
             => /\ sess[a].state = "attached"
                /\ sess[a].reply.kind = "some"
                /\ kind = "Text"
                   => /\ last'.req.kind = "Text"
                      /\ last'.req.id # 0
                      /\ last'.req.id = sess[a].reply.id
                      /\ last'.req.channel = sess[a].reply.channel
        /\ \A idle \in FrIdles :
             FrTick(a, idle) => sess[a].state = "attached" /\ sess[a].id = sess[a].reply.id]_vars

\* a Text was forwarded by the second session of a channel, under the id of
\* its reply, and relayed to the first
C40_Witness ==
    /\ last.op = "Text"
    /\ last.actor = NFrActors
    /\ last.req.id = sess[NFrActors].reply.id
    /\ last.req.id # 0
    /\ \E i \in DOMAIN last.out : last.out[i][1] # NFrActors

\* ----------------------------------------------------------- claims (12)
\* C34: shutdown applied again to the channel it has just removed, or to a
\* channel that is absent, leaves both registries as they are and pushes no
\* Terminate.
C34_ShutdownIdempotent ==
    \A c \in ChannelIDs :
        LET once == Shutdown(channels, sessions, c)
            twice == Shutdown(once.chs, once.ses, c)
        IN /\ twice.chs = once.chs
           /\ twice.ses = once.ses
           /\ twice.out = <<>>
           /\ c \notin DOMAIN channels
              => once.chs = channels /\ once.ses = sessions /\ once.out = <<>>

\* the broker has shut a channel down after a quota violation while another
\* channel has a member to terminate
C34_Witness ==
    /\ last.op = "Text"
    /\ last.outcome # "ok"
    /\ \E i \in DOMAIN last.out : last.out[i][2] = TerminateFrame
    /\ \E c \in ChannelIDs : c \notin DOMAIN channels
    /\ \E c \in DOMAIN channels : Shutdown(channels, sessions, c).out # <<>>

\* ----------------------------------------------------------- claims (13)
\* C35: when the relay of a ClientMessage is ended by a quota violation, no
\* session has been pushed the message, whatever the order of the visit.
C35_AbortDeliversNothing ==
    [][\A a \in Actors : \A n \in TextLens : \A ord \in Orders(sess[a].channel) :
        ClientTextWith(a, n, ord) /\ last'.outcome # "ok"
        => \A i \in DOMAIN last'.out : last'.out[i][2] = TerminateFrame]_vars

\* A relay ended by a message that is itself too long has delivered nothing.
C35_OversizeDeliversNothing ==
    [][\A a \in Actors : \A n \in TextLens : \A ord \in Orders(sess[a].channel) :
        ClientTextWith(a, n, ord) /\ last'.outcome # "ok"
        /\ WrappedLen(n) > settings.max_data /\ settings.max_data > 0
        => \A i \in DOMAIN last'.out : last'.out[i][2] = TerminateFrame]_vars

\* ----------------------------------------------------------- claims (14)
\* C36: a session that has been pushed a Terminate is pushed no frame in any
\* later step.
C36_TerminateFinal ==
    [][\A i \in DOMAIN last'.out : ~sess[last'.out[i][1]].term]_vars

\* the replies of the broker so far are pairwise different
C36_DistinctReplies ==
    \A a, b \in FrActors :
        a # b /\ sess[a].reply.kind = "some" /\ sess[b].reply.kind = "some"
        => sess[a].reply.id # sess[b].reply.id

\* As long as no two sessions were given the same reply, a session that has
\* been pushed a Terminate is pushed nothing more.
C36_FinalWithDistinctReplies ==
    [][C36_DistinctReplies' => \A i \in DOMAIN last'.out : ~sess[last'.out[i][1]].term]_vars

\* ----------------------------------------------------------- claims (15)
\* the running sessions of channel c whose id is a member of it
C37_MembersOf(c) ==
    {b \in Actors : /\ sess[b].state \in {"attached", "stopping"}
                    /\ sess[b].channel = c
                    /\ c \in DOMAIN channels
                    /\ sess[b].id \in DOMAIN channels[c]}

\* C37: a Text sent on channel c is pushed only to sessions that are members
\* of c when the broker handles it.
C37_ChannelIsolation ==
    [][\A a \in Actors : \A n \in TextLens : \A ord \in Orders(sess[a].channel) :
        ClientTextWith(a, n, ord)
        => \A i \in DOMAIN last'.out :
              last'.out[i][2].body[1] = "msg"
              => last'.out[i][1] \in C37_MembersOf(sess[a].channel)]_vars

\* every entry of the sessions registry is the handle of the session that
\* was accepted under that id, and no two running sessions have one id
C37_OwnHandles ==
    /\ \A x \in DOMAIN sessions : x # 0 /\ sess[sessions[x]].id = x
    /\ \A a, b \in Actors :
          a # b /\ sess[a].state \in {"attached", "stopping"}
                /\ sess[b].state \in {"attached", "stopping"}
          => sess[a].id # sess[b].id

\* A Text goes to members of its channel only, as long as the sessions
\* registry holds own handles.
C37_IsolationWithOwnHandles ==
    [][\A a \in Actors : \A n \in TextLens : \A ord \in Orders(sess[a].channel) :
        ClientTextWith(a, n, ord) /\ C37_OwnHandles
        => \A i \in DOMAIN last'.out :
              last'.out[i][2].body[1] = "msg"
              => last'.out[i][1] \in C37_MembersOf(sess[a].channel)]_vars

\* ----------------------------------------------------------- claims (16)
\* C38: a Connect that the broker rejects pushes no frame, and leaves every
\* channel there was with its members and their counters.
C38_RejectedConnectFrame ==
    [][last'.op = "Connect" /\ last' # last
       /\ last'.outcome \in {"unknown", "full", "unexpected"}
       => /\ last'.out = <<>>
          /\ sess'[last'.actor].id = 0
          /\ \A b \in DOMAIN sess : sess'[b].recv = sess[b].recv
          /\ \A c \in DOMAIN channels :
                c \in DOMAIN channels' /\ channels'[c] = channels[c]]_vars

\* a Connect was rejected for capacity on a channel whose members have been
\* charged for a message
C38_Witness ==
    /\ last.op = "Connect"
    /\ last.outcome = "full"
    /\ \E c \in DOMAIN channels : \E m \in DOMAIN channels[c] :
          channels[c][m].msg_count > 0 /\ sess[last.actor].channel = c

\* ----------------------------------------------------------- claims (17)
\* C39: a Disconnect or a ClientMessage for a channel that is not in the
\* registry leaves both registries as they are, creates no channel and
\* pushes no frame.
C39_AbsentChannelNoEffect ==
    [][\A a \in Actors :
        sess[a].channel \notin DOMAIN channels
        /\ (\/ ClientText(a)
            \/ ClientTerminate(a)
            \/ WsClose(a)
            \/ Stopping(a))
        => /\ channels' = channels
           /\ sessions' = sessions
           /\ last'.out = <<>>
           /\ \A b \in Actors \ {a} : sess'[b] = sess[b]]_vars

\* a former member sent a Text after its channel had been shut down over a quota
C39_Witness ==
    /\ last.op = "Text"
    /\ sess[last.actor].state = "attached"
    /\ sess[last.actor].id # 0
    /\ sess[last.actor].channel \notin DOMAIN channels
    /\ last.out = <<>>
    /\ last.outcome = "ok"
    /\ metrics.max_msg + metrics.max_data > 0

\* a rejected session, id 0, sent its final Disconnect for a channel that is absent
C39_WitnessDisconnect ==
    /\ last.op = "Disconnect"
    /\ last.outcome = "stopping"
    /\ channels = EmptyMap
    /\ \E x \in DOMAIN sessions : sessions[x] = last.actor
====
